---- MODULE Spec2Model ----
(***************************************************************************)
(* Model of the execution core of PROJECT SOVEREIGN: the opcode table      *)
(* (core/opcodes.py) and the stack virtual machine (vm/virtual_machine.py).*)
(* One call of SovereignVM.execute is a sequence of steps: the call        *)
(* itself (load_program and the loop set-up) and then one step per         *)
(* iteration of the fetch loop.                                            *)
(***************************************************************************)
EXTENDS Integers, Sequences, FiniteSets, TLC

VARIABLES
    config,     \* self.config: VMConfig
    state,      \* self.state: VMState
    program,    \* self.program: the loaded Program, or None
    mode,       \* "idle": no call in progress; "loop": inside the fetch loop of execute
    raised,     \* the error the last finished call raised to its caller, or None
    runs,       \* number of calls (execute, stack and memory methods) made so far
    fetches,    \* loop-head fetches (_check_execution_limit calls) of the current execute call
    fresh,      \* the current execute call started on a VM in its constructed state
    linear,     \* no dispatch of the current execute call has transferred control
    last        \* what the last step did

vars == <<config, state, program, mode, raised, runs, fetches, fresh, linear, last>>

----------------------------------------------------------------------------
(* Bounds of the model *)

\* number of calls (execute, push_data, ...) made on one VM
MaxRuns == 3

\* number of values on the data stack of a VM prepared for one program
MaxStackLen == 3

\* number of statements of a parsed source
MaxStatements == 3

----------------------------------------------------------------------------
(* Values *)

\* Python None (error_state, self.program, dict.get of a missing key)
None == "None"

\* a Python int on a stack or in memory
IntV(n) == [t |-> "int", i |-> n]

\* a Python str on a stack or in memory
StrV(x) == [t |-> "str", s |-> x]

IsInt(v) == v.t = "int"

IsStr(v) == v.t = "str"

\* an empty dict
EmptyDict == [k \in {} |-> None]

\* dict assignment d[k] = v
DictSet(d, k, v) == [x \in (DOMAIN d) \cup {k} |-> IF x = k THEN v ELSE d[x]]

\* all but the last element of a non-empty list
Front(s) == SubSeq(s, 1, Len(s) - 1)

\* s[-1]
Top(s) == s[Len(s)]

\* s[-2]
Second(s) == s[Len(s) - 1]

----------------------------------------------------------------------------
(* AST nodes: operands, instructions, programs *)

Immediate(n) == [k |-> "Immediate", value |-> n]

Register(n) == [k |-> "Register", number |-> n]

Address(a) == [k |-> "Address", value |-> a]

StringLiteral(x) == [k |-> "StringLiteral", value |-> x]

LabelRef(n) == [k |-> "LabelRef", name |-> n]

Instruction(op, operands) == [opcode |-> op, operands |-> operands]

Program(instructions, labels) == [instructions |-> instructions, labels |-> labels]

----------------------------------------------------------------------------
(* Python operators on the values the stacks hold *)

\* the outcome of an operator applied to operands it does not support
TypeError == [t |-> "TypeError"]

TypeErrorMsg == "unsupported operand type(s)"

RECURSIVE Repeat(_, _)
\* s * n for a str s
Repeat(x, n) == IF n <= 0 THEN "" ELSE x \o Repeat(x, n - 1)

RECURSIVE BitAnd(_, _)
\* a & b on unbounded ints (two's complement of infinite width)
BitAnd(a, b) ==
    IF a = 0 \/ b = 0 THEN 0
    ELSE IF a = -1 THEN b
    ELSE IF b = -1 THEN a
    ELSE (a % 2) * (b % 2) + 2 * BitAnd(a \div 2, b \div 2)

\* ~a
BitNot(a) == -a - 1

\* a | b
BitOr(a, b) == BitNot(BitAnd(BitNot(a), BitNot(b)))

\* a ^ b
BitXor(a, b) == BitAnd(BitOr(a, b), BitNot(BitAnd(a, b)))

(* Python ints have no width.  The integers of this model stop at 2^31, so *)
(* an int of magnitude 2^30 or more is held as WideV: its sign and the      *)
(* digits of its magnitude in base 2^15, least significant first, the last  *)
(* digit not 0.  A smaller int is always held as IntV.                      *)

Base == 2^15

\* an int whose magnitude is Base^2 or more
WideV(neg, mag) == [t |-> "int", neg |-> neg, mag |-> mag]

IsWide(v) == "mag" \in DOMAIN v

\* the j-th digit of a magnitude
Digit(m, j) == IF j <= Len(m) THEN m[j] ELSE 0

RECURSIVE Trim(_)
\* a magnitude without its leading zero digits
Trim(m) == IF m # <<>> /\ m[Len(m)] = 0 THEN Trim(SubSeq(m, 1, Len(m) - 1)) ELSE m

RECURSIVE MagOf(_)
\* the magnitude of n >= 0
MagOf(n) == IF n = 0 THEN <<>> ELSE <<n % Base>> \o MagOf(n \div Base)

RECURSIVE MagAddFrom(_, _, _, _)
MagAddFrom(x, y, j, carry) ==
    IF j > Len(x) /\ j > Len(y) THEN (IF carry = 0 THEN <<>> ELSE <<carry>>)
    ELSE LET sum == Digit(x, j) + Digit(y, j) + carry
         IN <<sum % Base>> \o MagAddFrom(x, y, j + 1, sum \div Base)

\* x + y on magnitudes
MagAdd(x, y) == MagAddFrom(x, y, 1, 0)

RECURSIVE MagLessFrom(_, _, _)
MagLessFrom(x, y, j) ==
    IF j = 0 THEN FALSE
    ELSE IF x[j] # y[j] THEN x[j] < y[j]
    ELSE MagLessFrom(x, y, j - 1)

\* x < y on magnitudes
MagLess(x, y) ==
    IF Len(x) # Len(y) THEN Len(x) < Len(y) ELSE MagLessFrom(x, y, Len(x))

RECURSIVE MagSubFrom(_, _, _, _)
MagSubFrom(x, y, j, borrow) ==
    IF j > Len(x) THEN <<>>
    ELSE LET diff == x[j] - Digit(y, j) - borrow
         IN <<diff % Base>> \o MagSubFrom(x, y, j + 1, IF diff < 0 THEN 1 ELSE 0)

\* x - y on magnitudes, for y <= x
MagSub(x, y) == Trim(MagSubFrom(x, y, 1, 0))

RECURSIVE MagScaleFrom(_, _, _, _)
MagScaleFrom(x, d, j, carry) ==
    IF j > Len(x) THEN (IF carry = 0 THEN <<>> ELSE <<carry>>)
    ELSE LET prod == x[j] * d + carry
         IN <<prod % Base>> \o MagScaleFrom(x, d, j + 1, prod \div Base)

RECURSIVE MagMul(_, _)
\* x * y on magnitudes
MagMul(x, y) ==
    IF y = <<>> THEN <<>>
    ELSE Trim(MagAdd(MagScaleFrom(x, y[1], 1, 0), <<0>> \o MagMul(x, Tail(y))))

\* the sign and magnitude of an int
Signed(v) ==
    IF IsWide(v) THEN [neg |-> v.neg, mag |-> v.mag]
    ELSE [neg |-> v.i < 0, mag |-> MagOf(IF v.i < 0 THEN -v.i ELSE v.i)]

\* the int of a sign and a magnitude
Unsigned(neg, mag) ==
    LET m == Trim(mag)
    IN IF Len(m) <= 2
       THEN IntV((IF neg THEN -1 ELSE 1) * (Digit(m, 1) + Base * Digit(m, 2)))
       ELSE WideV(neg, m)

\* the int n, for a native integer n
Canonical(n) ==
    IF -(Base * Base) < n /\ n < Base * Base THEN IntV(n)
    ELSE Unsigned(n < 0, MagOf(IF n < 0 THEN -n ELSE n))

IsNarrow(v) == ~IsWide(v)

\* |v| < Base
IsDigit(v) == ~IsWide(v) /\ -Base < v.i /\ v.i < Base

\* a + b on sign and magnitude
SignedAdd(a, b) ==
    IF a.neg = b.neg THEN Unsigned(a.neg, MagAdd(a.mag, b.mag))
    ELSE IF MagLess(a.mag, b.mag) THEN Unsigned(b.neg, MagSub(b.mag, a.mag))
    ELSE Unsigned(a.neg, MagSub(a.mag, b.mag))

\* -a on sign and magnitude
SignedNeg(a) == [neg |-> ~a.neg, mag |-> a.mag]

\* a + b on ints
IntAdd(a, b) ==
    IF IsNarrow(a) /\ IsNarrow(b) THEN Canonical(a.i + b.i)
    ELSE SignedAdd(Signed(a), Signed(b))

\* a - b on ints
IntSub(a, b) ==
    IF IsNarrow(a) /\ IsNarrow(b) THEN Canonical(a.i - b.i)
    ELSE SignedAdd(Signed(a), SignedNeg(Signed(b)))

\* a * b on ints
IntMul(a, b) ==
    IF IsDigit(a) /\ IsDigit(b) THEN IntV(a.i * b.i)
    ELSE Unsigned(Signed(a).neg # Signed(b).neg, MagMul(Signed(a).mag, Signed(b).mag))

PyAdd(a, b) ==
    IF IsInt(a) /\ IsInt(b) THEN IntAdd(a, b)
    ELSE IF IsStr(a) /\ IsStr(b) THEN StrV(a.s \o b.s)
    ELSE TypeError

PySub(a, b) == IF IsInt(a) /\ IsInt(b) THEN IntSub(a, b) ELSE TypeError

\* a str is repeated by narrow ints only
PyMul(a, b) ==
    IF IsInt(a) /\ IsInt(b) THEN IntMul(a, b)
    ELSE IF IsStr(a) /\ IsInt(b) THEN StrV(Repeat(a.s, b.i))
    ELSE IF IsInt(a) /\ IsStr(b) THEN StrV(Repeat(b.s, a.i))
    ELSE TypeError

\* a // b for b # 0: the floor of the quotient.  //, &, | and ^ are given
\* for narrow ints
PyFloorDiv(a, b) == IF IsInt(a) /\ IsInt(b) THEN IntV(a.i \div b.i) ELSE TypeError

PyAnd(a, b) == IF IsInt(a) /\ IsInt(b) THEN IntV(BitAnd(a.i, b.i)) ELSE TypeError

PyOr(a, b) == IF IsInt(a) /\ IsInt(b) THEN IntV(BitOr(a.i, b.i)) ELSE TypeError

PyXor(a, b) == IF IsInt(a) /\ IsInt(b) THEN IntV(BitXor(a.i, b.i)) ELSE TypeError

\* ~a == -a - 1
PyInvert(a) ==
    IF ~IsInt(a) THEN TypeError
    ELSE IF IsNarrow(a) THEN Canonical(BitNot(a.i))
    ELSE SignedAdd(SignedNeg(Signed(a)), Signed(IntV(-1)))

\* v == 0
IsZero(v) == IsInt(v) /\ IsNarrow(v) /\ v.i = 0

----------------------------------------------------------------------------
(* core/opcodes.py: each opcode's execute, on an ExecutionContext.  The     *)
(* context shares the VM's lists and dicts, so what an opcode did to them  *)
(* before it raised stays done; err is the message of the exception that   *)
(* left execute, or None.                                                  *)

ExecutionContext(data_stack, control_stack, memory, program_counter, registers) ==
    [data_stack |-> data_stack, control_stack |-> control_stack, memory |-> memory,
     program_counter |-> program_counter, registers |-> registers, err |-> None]

Raise(ctx, msg) == [ctx EXCEPT !.err = msg]

\* context.data_stack.append(value)
DataAppend(ctx, value) == [ctx EXCEPT !.data_stack = Append(@, value)]

\* context.data_stack.pop()
DataPop(ctx) == [ctx EXCEPT !.data_stack = Front(@)]

PushOp(ctx, value) == DataAppend(ctx, value)

\* PopOp doing nothing on an empty stack
PopOp_IgnoresEmpty(ctx) ==
    IF ctx.data_stack = <<>> THEN ctx
    ELSE DataPop(ctx)

PopOp(ctx) ==
    IF ctx.data_stack = <<>> THEN Raise(ctx, "Data stack underflow")
    ELSE DataPop(ctx)

DupOp(ctx) ==
    IF ctx.data_stack = <<>> THEN Raise(ctx, "Data stack empty")
    ELSE DataAppend(ctx, Top(ctx.data_stack))

SwapOp(ctx) ==
    IF Len(ctx.data_stack) < 2 THEN Raise(ctx, "Not enough values on stack to swap")
    ELSE LET n == Len(ctx.data_stack)
         IN [ctx EXCEPT !.data_stack =
                [@ EXCEPT ![n] = ctx.data_stack[n - 1], ![n - 1] = ctx.data_stack[n]]]

\* RotOp turning the top three the other way: the third value comes on top
RotOp_ThirdOnTop(ctx) ==
    IF Len(ctx.data_stack) < 3 THEN Raise(ctx, "Not enough values on stack to rotate")
    ELSE LET n == Len(ctx.data_stack)
             a == ctx.data_stack[n]
             b == ctx.data_stack[n - 1]
             c == ctx.data_stack[n - 2]
         IN [ctx EXCEPT !.data_stack = SubSeq(@, 1, n - 3) \o <<b, a, c>>]

RotOp(ctx) ==
    IF Len(ctx.data_stack) < 3 THEN Raise(ctx, "Not enough values on stack to rotate")
    ELSE LET n == Len(ctx.data_stack)
             a == ctx.data_stack[n]
             b == ctx.data_stack[n - 1]
             c == ctx.data_stack[n - 2]
         IN [ctx EXCEPT !.data_stack = SubSeq(@, 1, n - 3) \o <<a, c, b>>]

OverOp(ctx) ==
    IF Len(ctx.data_stack) < 2 THEN Raise(ctx, "Not enough values on stack for over")
    ELSE DataAppend(ctx, Second(ctx.data_stack))

DropOp(ctx) ==
    IF ctx.data_stack = <<>> THEN Raise(ctx, "Data stack empty")
    ELSE DataPop(ctx)

ClearOp(ctx) == [ctx EXCEPT !.data_stack = <<>>]

\* the binary opcodes: check, pop b, pop a, append a op b; an operator that
\* rejects its operands raises after both pops
AddOp(ctx) ==
    IF Len(ctx.data_stack) < 2 THEN Raise(ctx, "Not enough values on stack for addition")
    ELSE LET b == Top(ctx.data_stack)
             a == Second(ctx.data_stack)
             popped == DataPop(DataPop(ctx))
         IN IF PyAdd(a, b) = TypeError THEN Raise(popped, TypeErrorMsg)
            ELSE DataAppend(popped, PyAdd(a, b))

\* SubOp subtracting the second value from the top
SubOp_TopMinusSecond(ctx) ==
    IF Len(ctx.data_stack) < 2 THEN Raise(ctx, "Not enough values on stack for subtraction")
    ELSE LET b == Top(ctx.data_stack)
             a == Second(ctx.data_stack)
             popped == DataPop(DataPop(ctx))
         IN IF PySub(b, a) = TypeError THEN Raise(popped, TypeErrorMsg)
            ELSE DataAppend(popped, PySub(b, a))

SubOp(ctx) ==
    IF Len(ctx.data_stack) < 2 THEN Raise(ctx, "Not enough values on stack for subtraction")
    ELSE LET b == Top(ctx.data_stack)
             a == Second(ctx.data_stack)
             popped == DataPop(DataPop(ctx))
         IN IF PySub(a, b) = TypeError THEN Raise(popped, TypeErrorMsg)
            ELSE DataAppend(popped, PySub(a, b))

MulOp(ctx) ==
    IF Len(ctx.data_stack) < 2 THEN Raise(ctx, "Not enough values on stack for multiplication")
    ELSE LET b == Top(ctx.data_stack)
             a == Second(ctx.data_stack)
             popped == DataPop(DataPop(ctx))
         IN IF PyMul(a, b) = TypeError THEN Raise(popped, TypeErrorMsg)
            ELSE DataAppend(popped, PyMul(a, b))

\* DivOp dividing the top of the stack by the value below it
DivOp_TopBySecond(ctx) ==
    IF Len(ctx.data_stack) < 2 THEN Raise(ctx, "Not enough values on stack for division")
    ELSE LET b == Top(ctx.data_stack)
             a == Second(ctx.data_stack)
             popped == DataPop(DataPop(ctx))
         IN IF IsZero(a) THEN Raise(popped, "Division by zero")
            ELSE IF PyFloorDiv(b, a) = TypeError THEN Raise(popped, TypeErrorMsg)
            ELSE DataAppend(popped, PyFloorDiv(b, a))

DivOp(ctx) ==
    IF Len(ctx.data_stack) < 2 THEN Raise(ctx, "Not enough values on stack for division")
    ELSE LET b == Top(ctx.data_stack)
             a == Second(ctx.data_stack)
             popped == DataPop(DataPop(ctx))
         IN IF IsZero(b) THEN Raise(popped, "Division by zero")
            ELSE IF PyFloorDiv(a, b) = TypeError THEN Raise(popped, TypeErrorMsg)
            ELSE DataAppend(popped, PyFloorDiv(a, b))

AndOp(ctx) ==
    IF Len(ctx.data_stack) < 2 THEN Raise(ctx, "Not enough values on stack for AND")
    ELSE LET b == Top(ctx.data_stack)
             a == Second(ctx.data_stack)
             popped == DataPop(DataPop(ctx))
         IN IF PyAnd(a, b) = TypeError THEN Raise(popped, TypeErrorMsg)
            ELSE DataAppend(popped, PyAnd(a, b))

OrOp(ctx) ==
    IF Len(ctx.data_stack) < 2 THEN Raise(ctx, "Not enough values on stack for OR")
    ELSE LET b == Top(ctx.data_stack)
             a == Second(ctx.data_stack)
             popped == DataPop(DataPop(ctx))
         IN IF PyOr(a, b) = TypeError THEN Raise(popped, TypeErrorMsg)
            ELSE DataAppend(popped, PyOr(a, b))

XorOp(ctx) ==
    IF Len(ctx.data_stack) < 2 THEN Raise(ctx, "Not enough values on stack for XOR")
    ELSE LET b == Top(ctx.data_stack)
             a == Second(ctx.data_stack)
             popped == DataPop(DataPop(ctx))
         IN IF PyXor(a, b) = TypeError THEN Raise(popped, TypeErrorMsg)
            ELSE DataAppend(popped, PyXor(a, b))

NotOp(ctx) ==
    IF ctx.data_stack = <<>> THEN Raise(ctx, "Data stack empty for NOT")
    ELSE LET a == Top(ctx.data_stack)
             popped == DataPop(ctx)
         IN IF PyInvert(a) = TypeError THEN Raise(popped, TypeErrorMsg)
            ELSE DataAppend(popped, PyInvert(a))

\* JumpOp without the - 1 that makes up for the VM's increment
JumpOp_NoAdjust(ctx, address) == [ctx EXCEPT !.program_counter = address.i]

JumpOp(ctx, address) == [ctx EXCEPT !.program_counter = address.i - 1]

\* JumpZeroOp taking the tested value off the stack
JumpZeroOp_Pops(ctx, address) ==
    IF ctx.data_stack = <<>> THEN Raise(ctx, "Data stack empty for JZ")
    ELSE IF IsZero(Top(ctx.data_stack))
         THEN [DataPop(ctx) EXCEPT !.program_counter = address.i - 1]
    ELSE DataPop(ctx)

JumpZeroOp(ctx, address) ==
    IF ctx.data_stack = <<>> THEN Raise(ctx, "Data stack empty for JZ")
    ELSE IF IsZero(Top(ctx.data_stack)) THEN [ctx EXCEPT !.program_counter = address.i - 1]
    ELSE ctx

JumpNotZeroOp(ctx, address) ==
    IF ctx.data_stack = <<>> THEN Raise(ctx, "Data stack empty for JNZ")
    ELSE IF ~IsZero(Top(ctx.data_stack)) THEN [ctx EXCEPT !.program_counter = address.i - 1]
    ELSE ctx

\* CallOp pushing the address of the CALL itself as the return address
CallOp_ReturnsToCall(ctx, address) ==
    LET pushed == [ctx EXCEPT !.control_stack = Append(@, ctx.program_counter)]
    IN IF IsInt(address) THEN [pushed EXCEPT !.program_counter = address.i - 1]
       ELSE Raise(pushed, TypeErrorMsg)

\* the return address is appended before address - 1 is computed, and
\* validate_args lets any one argument through: a str address raises after the append
CallOp(ctx, address) ==
    LET pushed == [ctx EXCEPT !.control_stack = Append(@, ctx.program_counter + 1)]
    IN IF IsInt(address) THEN [pushed EXCEPT !.program_counter = address.i - 1]
       ELSE Raise(pushed, TypeErrorMsg)

ReturnOp(ctx) ==
    IF ctx.control_stack = <<>> THEN Raise(ctx, "Control stack underflow on RET")
    ELSE [ctx EXCEPT !.program_counter = Top(ctx.control_stack) - 1,
                     !.control_stack = Front(@)]

ForkOp(ctx, address) == ctx

JoinOp(ctx) == ctx

HaltOp(ctx) == ctx

\* LoadOp using context.memory.setdefault(address, 0)
LoadOp_SetsDefault(ctx, address) ==
    IF address \in DOMAIN ctx.memory THEN DataAppend(ctx, ctx.memory[address])
    ELSE [DataAppend(ctx, IntV(0)) EXCEPT !.memory = DictSet(@, address, IntV(0))]

\* context.memory.get(address, 0)
LoadOp(ctx, address) ==
    DataAppend(ctx, IF address \in DOMAIN ctx.memory THEN ctx.memory[address] ELSE IntV(0))

StoreOp(ctx, address) ==
    IF ctx.data_stack = <<>> THEN Raise(ctx, "Data stack empty for STORE")
    ELSE LET value == Top(ctx.data_stack)
         IN [DataPop(ctx) EXCEPT !.memory = DictSet(@, address, value)]

\* execute(self, context, filename, mode="r"): a third argument is a TypeError of the call
FileOpenOp(ctx, args) ==
    IF Len(args) > 2
    THEN Raise(ctx, "FileOpenOp.execute() takes from 3 to 4 positional arguments but "
                        \o ToString(Len(args) + 2) \o " were given")
    ELSE ctx

FileReadOp(ctx) == ctx

FileWriteOp(ctx) == ctx

FileCloseOp(ctx) == ctx

LLMGenOp(ctx, prompt) == ctx

EvolveOp(ctx, error_context) == ctx

\* validate_args of the opcode registered under `name`
validate_args(name, args) ==
    CASE name \in {"PUSH", "CALL", "FORK", "LOAD", "STORE", "EVOLVE"} -> Len(args) = 1
      [] name \in {"JMP", "JZ", "JNZ"} -> Len(args) = 1 /\ IsInt(args[1])
      [] name = "FOPEN" -> Len(args) >= 1
      [] name = "LLMGEN" -> Len(args) = 1 /\ IsStr(args[1])
      [] OTHER -> Len(args) = 0

\* opcode.execute(context, *args), for arguments that validate_args accepted
OpExecute(name, ctx, args) ==
    CASE name = "PUSH" -> PushOp(ctx, args[1])
      [] name = "POP" -> PopOp(ctx)
      [] name = "DUP" -> DupOp(ctx)
      [] name = "SWAP" -> SwapOp(ctx)
      [] name = "ROT" -> RotOp(ctx)
      [] name = "OVER" -> OverOp(ctx)
      [] name = "DROP" -> DropOp(ctx)
      [] name = "CLEAR" -> ClearOp(ctx)
      [] name = "ADD" -> AddOp(ctx)
      [] name = "SUB" -> SubOp(ctx)
      [] name = "MUL" -> MulOp(ctx)
      [] name = "DIV" -> DivOp(ctx)
      [] name = "AND" -> AndOp(ctx)
      [] name = "OR" -> OrOp(ctx)
      [] name = "XOR" -> XorOp(ctx)
      [] name = "NOT" -> NotOp(ctx)
      [] name = "JMP" -> JumpOp(ctx, args[1])
      [] name = "JZ" -> JumpZeroOp(ctx, args[1])
      [] name = "JNZ" -> JumpNotZeroOp(ctx, args[1])
      [] name = "CALL" -> CallOp(ctx, args[1])
      [] name = "RET" -> ReturnOp(ctx)
      [] name = "FORK" -> ForkOp(ctx, args[1])
      [] name = "JOIN" -> JoinOp(ctx)
      [] name = "HALT" -> HaltOp(ctx)
      [] name = "LOAD" -> LoadOp(ctx, args[1])
      [] name = "STORE" -> StoreOp(ctx, args[1])
      [] name = "FOPEN" -> FileOpenOp(ctx, args)
      [] name = "FREAD" -> FileReadOp(ctx)
      [] name = "FWRITE" -> FileWriteOp(ctx)
      [] name = "FCLOSE" -> FileCloseOp(ctx)
      [] name = "LLMGEN" -> LLMGenOp(ctx, args[1])
      [] name = "EVOLVE" -> EvolveOp(ctx, args[1])

\* the names _register_builtin_opcodes registers
RegisteredOpcodes ==
    {"PUSH", "POP", "DUP", "SWAP", "ROT", "OVER", "DROP", "CLEAR",
     "ADD", "SUB", "MUL", "DIV", "AND", "OR", "XOR", "NOT",
     "JMP", "JZ", "JNZ", "CALL", "RET", "FORK", "JOIN", "HALT",
     "LOAD", "STORE", "FOPEN", "FREAD", "FWRITE", "FCLOSE", "LLMGEN", "EVOLVE"}

\* str.upper, on the spellings of opcode names the programs of the model use
upper(name) ==
    CASE name \in {"halt", "Halt"} -> "HALT"
      [] name \in {"push", "Push"} -> "PUSH"
      [] name = "pop" -> "POP"
      [] name = "add" -> "ADD"
      [] name = "jmp" -> "JMP"
      [] name = "call" -> "CALL"
      [] name = "ret" -> "RET"
      [] name = "bogus" -> "BOGUS"
      [] OTHER -> name

\* OpCodeRegistry.get_opcode: the registered opcode's name, or None
get_opcode(name) == IF upper(name) \in RegisteredOpcodes THEN upper(name) ELSE None

----------------------------------------------------------------------------
(* vm/virtual_machine.py *)

VMConfig(max_stack_size, max_memory_size, max_execution_steps, max_call_depth) ==
    [max_stack_size |-> max_stack_size, max_memory_size |-> max_memory_size,
     max_execution_steps |-> max_execution_steps, max_call_depth |-> max_call_depth]

\* VMState(): the dataclass defaults
VMState ==
    [data_stack |-> <<>>, control_stack |-> <<>>, memory |-> EmptyDict,
     registers |-> EmptyDict, program_counter |-> 0, running |-> FALSE,
     error_state |-> None, execution_steps |-> 0, memory_usage |-> 0]

\* self.program = None
NoProgram == [t |-> "None"]

to_execution_context(st) ==
    ExecutionContext(st.data_stack, st.control_stack, st.memory, st.program_counter,
                     st.registers)

\* the least element of a non-empty set of integers
Min(S) == CHOOSE x \in S : \A y \in S : x <= y

\* load_program without the validation of the opcodes
load_program_NoValidation(st, prog) ==
    [state |-> [st EXCEPT !.program_counter = 0, !.running = FALSE, !.error_state = None],
     err |-> None]

\* load_program: the state it leaves and the error it raises (None: it returns)
load_program(st, prog) ==
    LET loaded == [st EXCEPT !.program_counter = 0, !.running = FALSE, !.error_state = None]
        unknown == {j \in 1..Len(prog.instructions) :
                        get_opcode(prog.instructions[j].opcode) = None}
    IN [state |-> loaded,
        err |-> IF unknown = {} THEN None
                ELSE "Unknown opcode: " \o prog.instructions[Min(unknown)].opcode]

\* the message of the step-limit error
StepLimitMessage(cfg) ==
    "Execution exceeded maximum steps of " \o ToString(cfg.max_execution_steps)

\* _check_execution_limit comparing with > where the code has >=
_check_execution_limit_Late(st, cfg) ==
    LET counted == [st EXCEPT !.execution_steps = @ + 1]
    IN [state |-> counted,
        err |-> IF counted.execution_steps > cfg.max_execution_steps
                THEN StepLimitMessage(cfg) ELSE None]

\* _check_execution_limit counting every fetch twice
_check_execution_limit_Twice(st, cfg) ==
    LET counted == [st EXCEPT !.execution_steps = @ + 2]
    IN [state |-> counted,
        err |-> IF counted.execution_steps >= cfg.max_execution_steps
                THEN StepLimitMessage(cfg) ELSE None]

_check_execution_limit(st, cfg) ==
    LET counted == [st EXCEPT !.execution_steps = @ + 1]
    IN [state |-> counted,
        err |-> IF counted.execution_steps >= cfg.max_execution_steps
                THEN StepLimitMessage(cfg) ELSE None]

\* handle_runtime_error leaving running as it was
handle_runtime_error_StillRunning(st, error) ==
    [state |-> [st EXCEPT !.error_state = error], err |-> error]

\* records the error and re-raises it
handle_runtime_error(st, error) ==
    [state |-> [st EXCEPT !.error_state = error, !.running = FALSE], err |-> error]

\* str(operand) of a Register giving the number alone
RegisterName_NumberOnly(operand) == ToString(operand.number)

\* str(operand) of a Register
RegisterName(operand) == "r" \o ToString(operand.number)

\* ResolveOperand taking a label for the instruction behind the one it names
ResolveOperand_NextIndex(st, prog, operand) ==
    CASE operand.k = "Immediate" -> IntV(operand.value)
      [] operand.k = "Register" ->
            IF RegisterName(operand) \in DOMAIN st.registers
            THEN st.registers[RegisterName(operand)] ELSE IntV(0)
      [] operand.k \in {"Address", "StringLiteral"} -> StrV(operand.value)
      [] operand.k = "LabelRef" -> IntV(prog.labels[operand.name] + 1)

\* one operand of execute_instruction's conversion loop, its label being defined
ResolveOperand(st, prog, operand) ==
    CASE operand.k = "Immediate" -> IntV(operand.value)
      [] operand.k = "Register" ->
            IF RegisterName(operand) \in DOMAIN st.registers
            THEN st.registers[RegisterName(operand)] ELSE IntV(0)
      [] operand.k \in {"Address", "StringLiteral"} -> StrV(operand.value)
      [] operand.k = "LabelRef" -> IntV(prog.labels[operand.name])

\* the positions of the LabelRef operands that the loaded program does not define
UndefinedLabels(prog, operands) ==
    {j \in 1..Len(operands) :
        /\ operands[j].k = "LabelRef"
        /\ ~(prog # NoProgram /\ operands[j].name \in DOMAIN prog.labels)}

\* the end of execute_instruction, `out` being the context the opcode's execute
\* left: the lists and dicts the context shares with the state keep what the
\* opcode did to them, the program counter is copied back when it returns
from_execution_context(st, opcode, args, out) ==
    [state |-> [st EXCEPT !.data_stack = out.data_stack,
                          !.control_stack = out.control_stack,
                          !.memory = out.memory,
                          !.registers = out.registers,
                          !.program_counter = IF out.err # None THEN @
                                              ELSE out.program_counter],
     err |-> out.err,
     stage |-> IF out.err # None THEN "opcode" ELSE "done",
     opcode |-> opcode, args |-> args]

\* execute_instruction: the state it leaves, the error it raises (or None), and
\* the opcode and arguments it got as far as resolving.  The message of the
\* argument error ends with the list of arguments, left out here.
execute_instruction(st, prog, instruction) ==
    LET opcode == get_opcode(instruction.opcode)
        operands == instruction.operands
        undefined == UndefinedLabels(prog, operands)
        args == [j \in 1..Len(operands) |-> ResolveOperand(st, prog, operands[j])]
    IN IF opcode = None
       THEN [state |-> st, err |-> "Unknown opcode: " \o instruction.opcode,
             stage |-> "lookup", opcode |-> None, args |-> <<>>]
       ELSE IF undefined # {}
       THEN [state |-> st, err |-> "Undefined label: " \o operands[Min(undefined)].name,
             stage |-> "resolve", opcode |-> opcode, args |-> <<>>]
       ELSE IF ~validate_args(opcode, args)
       THEN [state |-> st, err |-> "Invalid arguments for " \o instruction.opcode,
             stage |-> "validate", opcode |-> opcode, args |-> args]
       ELSE from_execution_context(st, opcode, args,
                                   OpExecute(opcode, to_execution_context(st), args))

\* what a step of a call did: its kind, the program counter it started at,
\* the opcode it looked up and the arguments it resolved
Event(kind, pc, opcode, args) == [kind |-> kind, pc |-> pc, opcode |-> opcode, args |-> args]

\* the condition of execute's while loop
LoopCondition(st, prog) == st.running /\ st.program_counter < Len(prog.instructions)

\* program.instructions[pc] raises IndexError below -len
FetchRaises(st, prog) == st.program_counter < -Len(prog.instructions)

\* program.instructions[pc], a negative pc counting from the end of the list
Fetch(st, prog) ==
    IF st.program_counter >= 0 THEN prog.instructions[st.program_counter + 1]
    ELSE prog.instructions[Len(prog.instructions) + st.program_counter + 1]

\* the `except Exception` clause of execute, for an error raised inside the loop
LoopRaise(st, error, kind, pc, opcode, args) ==
    LET handled == handle_runtime_error(st, error)
    IN [state |-> handled.state, done |-> TRUE, err |-> handled.err,
        event |-> Event(kind, pc, opcode, args)]

\* the rest of the loop body, `ran` being what execute_instruction did: its
\* error goes to the except clause, otherwise program_counter += 1
LoopBodyEnd(pc, ran) ==
    IF ran.err # None
    THEN LoopRaise(ran.state, ran.err, "instruction_error", pc, ran.opcode, ran.args)
    ELSE [state |-> [ran.state EXCEPT !.program_counter = @ + 1], done |-> FALSE,
          err |-> None, event |-> Event("dispatch", pc, ran.opcode, ran.args)]

\* the loop without its test for HALT: HALT is dispatched like any opcode
LoopIteration_DispatchesHalt(st, prog, cfg) ==
    LET pc == st.program_counter
        checked == _check_execution_limit(st, cfg)
    IN IF ~LoopCondition(st, prog)
       THEN [state |-> st, done |-> TRUE, err |-> None,
             event |-> Event("exit", pc, None, <<>>)]
       ELSE IF checked.err # None
       THEN LoopRaise(checked.state, checked.err, "limit_error", pc, None, <<>>)
       ELSE IF FetchRaises(checked.state, prog)
       THEN LoopRaise(checked.state, "list index out of range", "fetch_error", pc, None, <<>>)
       ELSE LoopBodyEnd(pc, execute_instruction(checked.state, prog,
                                                Fetch(checked.state, prog)))

\* one evaluation of execute's loop from its head: the test of the condition and,
\* when it holds, the body.  done: execute returned or raised; err: the error raised.
LoopIteration(st, prog, cfg) ==
    LET pc == st.program_counter
        checked == _check_execution_limit(st, cfg)
        instruction == Fetch(checked.state, prog)
    IN IF ~LoopCondition(st, prog)
       THEN [state |-> st, done |-> TRUE, err |-> None,
             event |-> Event("exit", pc, None, <<>>)]
       ELSE IF checked.err # None
       THEN LoopRaise(checked.state, checked.err, "limit_error", pc, None, <<>>)
       ELSE IF FetchRaises(checked.state, prog)
       THEN LoopRaise(checked.state, "list index out of range", "fetch_error", pc, None, <<>>)
       ELSE IF instruction.opcode = "HALT"
       THEN [state |-> [checked.state EXCEPT !.running = FALSE], done |-> TRUE,
             err |-> None, event |-> Event("halt", pc, "HALT", <<>>)]
       ELSE LoopBodyEnd(pc, execute_instruction(checked.state, prog, instruction))

RECURSIVE RunLoop(_, _, _)
RECURSIVE RunLoopFrom(_, _, _)
\* execute's loop after one evaluation `it` of it
RunLoopFrom(it, prog, cfg) ==
    IF it.done THEN [state |-> it.state, err |-> it.err]
    ELSE RunLoop(it.state, prog, cfg)

\* execute's loop run to its end: the terminal state and the error raised (or None)
RunLoop(st, prog, cfg) == RunLoopFrom(LoopIteration(st, prog, cfg), prog, cfg)

\* execute starting every run with the step count at 0 and an empty data stack
EnterLoop_StartsClean(st) ==
    [st EXCEPT !.running = TRUE, !.program_counter = 0, !.execution_steps = 0,
               !.data_stack = <<>>]

\* execute up to the loop: load_program, running = True, program_counter = 0
EnterLoop(st) == [st EXCEPT !.running = TRUE, !.program_counter = 0]

\* a whole call of execute: the terminal state and the error raised (or None)
execute(st, prog, cfg) ==
    LET loaded == load_program(st, prog)
    IN IF loaded.err # None THEN loaded
       ELSE RunLoop(EnterLoop(loaded.state), prog, cfg)

\* the estimated size of a value: 64 if isinstance(value, str) else 8
ValueCost(v) == IF IsStr(v) THEN 64 ELSE 8

\* _check_stack_overflow: the error it raises for a push on `stack`, or None
_check_stack_overflow(stack, operation, cfg) ==
    IF Len(stack) >= cfg.max_stack_size
    THEN operation \o " would exceed maximum stack size of " \o ToString(cfg.max_stack_size)
    ELSE None

\* _check_call_depth: the error it raises, or None
_check_call_depth(st, cfg) ==
    IF Len(st.control_stack) >= cfg.max_call_depth
    THEN "Call depth would exceed maximum of " \o ToString(cfg.max_call_depth)
    ELSE None

\* _update_memory_usage adding nothing before it compares
_update_memory_usage_NoCount(st, cfg, delta) ==
    [state |-> st,
     err |-> IF st.memory_usage > cfg.max_memory_size
             THEN "Memory usage exceeded maximum of " \o ToString(cfg.max_memory_size)
                      \o " bytes"
             ELSE None]

\* _update_memory_usage: the counter is changed first and compared after
_update_memory_usage(st, cfg, delta) ==
    LET counted == [st EXCEPT !.memory_usage = @ + delta]
    IN [state |-> counted,
        err |-> IF counted.memory_usage > cfg.max_memory_size
                THEN "Memory usage exceeded maximum of " \o ToString(cfg.max_memory_size)
                         \o " bytes"
                ELSE None]

\* push_control testing the call depth before the stack size
push_control_DepthFirst(st, cfg, value) ==
    LET overflow == _check_stack_overflow(st.control_stack, "Control stack push", cfg)
        depth == _check_call_depth(st, cfg)
        appended == [st EXCEPT !.control_stack = Append(@, value)]
    IN IF depth # None THEN [state |-> st, err |-> depth]
       ELSE IF overflow # None THEN [state |-> st, err |-> overflow]
       ELSE _update_memory_usage(appended, cfg, 8)

\* push_data: the state it leaves and the error it raises (or None)
push_data(st, cfg, value) ==
    LET overflow == _check_stack_overflow(st.data_stack, "Data stack push", cfg)
        appended == [st EXCEPT !.data_stack = Append(@, value)]
    IN IF overflow # None THEN [state |-> st, err |-> overflow]
       ELSE _update_memory_usage(appended, cfg, ValueCost(value))

\* pop_data leaving memory_usage as it was
pop_data_NoRelease(st, cfg) ==
    IF st.data_stack = <<>> THEN [state |-> st, err |-> "Data stack underflow"]
    ELSE [state |-> [st EXCEPT !.data_stack = Front(@)], err |-> None]

\* pop_data: the value is popped before the counter is updated
pop_data(st, cfg) ==
    IF st.data_stack = <<>> THEN [state |-> st, err |-> "Data stack underflow"]
    ELSE _update_memory_usage([st EXCEPT !.data_stack = Front(@)], cfg,
                              -ValueCost(Top(st.data_stack)))

\* push_control
push_control(st, cfg, value) ==
    LET overflow == _check_stack_overflow(st.control_stack, "Control stack push", cfg)
        depth == _check_call_depth(st, cfg)
        appended == [st EXCEPT !.control_stack = Append(@, value)]
    IN IF overflow # None THEN [state |-> st, err |-> overflow]
       ELSE IF depth # None THEN [state |-> st, err |-> depth]
       ELSE _update_memory_usage(appended, cfg, 8)

\* pop_control
pop_control(st, cfg) ==
    IF st.control_stack = <<>> THEN [state |-> st, err |-> "Control stack underflow"]
    ELSE _update_memory_usage([st EXCEPT !.control_stack = Front(@)], cfg, -8)

\* set_memory charging new_size also when it overwrites
set_memory_ChargesNew(st, cfg, address, value) ==
    LET updated == _update_memory_usage(st, cfg, ValueCost(value))
    IN IF updated.err # None THEN updated
       ELSE [state |-> [updated.state EXCEPT !.memory = DictSet(@, address, value)],
             err |-> None]

\* set_memory: the counter is updated, and may raise, before the value is stored
set_memory(st, cfg, address, value) ==
    LET old_size == IF address \notin DOMAIN st.memory THEN 0
                    ELSE ValueCost(st.memory[address])
        updated == _update_memory_usage(st, cfg, ValueCost(value) - old_size)
    IN IF updated.err # None THEN updated
       ELSE [state |-> [updated.state EXCEPT !.memory = DictSet(@, address, value)],
             err |-> None]

\* a Label statement of the source
Label(n) == [k |-> "Label", name |-> n]

\* a piece of source text the grammar does not accept, with what Lark says of it
Unparsable(detail) == [k |-> "Unparsable", detail |-> detail]

RECURSIVE SovereignTransformer_program_NextIndex(_)
\* SovereignTransformer.program binding each label one instruction too far
SovereignTransformer_program_NextIndex(items) ==
    IF items = <<>> THEN Program(<<>>, EmptyDict)
    ELSE LET before == SovereignTransformer_program_NextIndex(Front(items))
             item == Top(items)
         IN IF "opcode" \in DOMAIN item
            THEN Program(Append(before.instructions, item), before.labels)
            ELSE Program(before.instructions,
                         [n \in DOMAIN before.labels \cup {item.name} |->
                            IF n = item.name THEN Len(before.instructions) + 1
                            ELSE before.labels[n]])

RECURSIVE SovereignTransformer_program(_)
\* SovereignTransformer.program(items): the instructions in order, each label
\* bound to the number of instructions before it
SovereignTransformer_program(items) ==
    IF items = <<>> THEN Program(<<>>, EmptyDict)
    ELSE LET before == SovereignTransformer_program(Front(items))
             item == Top(items)
         IN IF "opcode" \in DOMAIN item
            THEN Program(Append(before.instructions, item), before.labels)
            ELSE Program(before.instructions,
                         [n \in DOMAIN before.labels \cup {item.name} |->
                            IF n = item.name THEN Len(before.instructions)
                            ELSE before.labels[n]])

\* SovereignParser.parse(source), the source given as the statements Lark
\* finds in it: whatever Lark raises becomes a ParseError
SovereignParser_parse(source) ==
    IF \E j \in 1..Len(source) : "detail" \in DOMAIN source[j]
    THEN LET j == Min({x \in 1..Len(source) : "detail" \in DOMAIN source[x]})
         IN [program |-> NoProgram, err |-> "Failed to parse source: " \o source[j].detail]
    ELSE [program |-> SovereignTransformer_program(source), err |-> None]

\* the except clause of SovereignInterpreter.run re-raising e as it is
SovereignInterpreter_run_except_Reraise(e) == e

\* the except clause of SovereignInterpreter.run around vm.execute: the
\* message of the RuntimeError it raises from e
SovereignInterpreter_run_except(e) == "Execution failed: " \o e

\* a reset that keeps the usage counters
reset_KeepsCounters ==
    [VMState EXCEPT !.execution_steps = state.execution_steps,
                    !.memory_usage = state.memory_usage]

\* reset(): the state it installs
reset == VMState

----------------------------------------------------------------------------
(* The programs and configurations the VM is run on *)

NoLabels == EmptyDict

\* tests/unit/test_memory_limits.py, test_execution_step_limit
ProgSixPush ==
    Program(<<Instruction("PUSH", <<Immediate(1)>>), Instruction("PUSH", <<Immediate(2)>>),
              Instruction("PUSH", <<Immediate(3)>>), Instruction("PUSH", <<Immediate(4)>>),
              Instruction("PUSH", <<Immediate(5)>>), Instruction("PUSH", <<Immediate(6)>>),
              Instruction("HALT", <<>>)>>, NoLabels)

\* opcodes written in lower case, an instruction after the halt
ProgLower ==
    Program(<<Instruction("push", <<Immediate(1)>>), Instruction("halt", <<>>),
              Instruction("PUSH", <<Immediate(2)>>), Instruction("HALT", <<>>)>>, NoLabels)

\* tests/integration/test_programs.py, test_control_flow_jump
ProgJump ==
    Program(<<Instruction("PUSH", <<Immediate(1)>>), Instruction("JMP", <<LabelRef("end")>>),
              Instruction("PUSH", <<Immediate(2)>>), Instruction("PUSH", <<Immediate(3)>>),
              Instruction("HALT", <<>>)>>, [l \in {"end"} |-> 3])

\* tests/integration/test_programs.py, test_function_calls
ProgCall ==
    Program(<<Instruction("PUSH", <<Immediate(10)>>), Instruction("CALL", <<LabelRef("function")>>),
              Instruction("PUSH", <<Immediate(30)>>), Instruction("HALT", <<>>),
              Instruction("PUSH", <<Immediate(20)>>), Instruction("RET", <<>>)>>,
            [l \in {"function"} |-> 4])

\* a call made inside a called function
ProgNested ==
    Program(<<Instruction("PUSH", <<Immediate(10)>>), Instruction("CALL", <<LabelRef("f")>>),
              Instruction("HALT", <<>>),
              Instruction("CALL", <<LabelRef("g")>>), Instruction("PUSH", <<Immediate(30)>>),
              Instruction("RET", <<>>),
              Instruction("PUSH", <<Immediate(20)>>), Instruction("RET", <<>>)>>,
            [l \in {"f", "g"} |-> IF l = "f" THEN 3 ELSE 6])

\* f: CALL f
ProgRecurse == Program(<<Instruction("CALL", <<LabelRef("f")>>)>>, [l \in {"f"} |-> 0])

\* l: JMP l
ProgSpin == Program(<<Instruction("JMP", <<LabelRef("l")>>)>>, [l \in {"l"} |-> 0])

\* tests/integration/test_programs.py, test_conditional_jumps
ProgCond ==
    Program(<<Instruction("PUSH", <<Immediate(0)>>), Instruction("JZ", <<LabelRef("zero_branch")>>),
              Instruction("PUSH", <<Immediate(99)>>), Instruction("JMP", <<LabelRef("end")>>),
              Instruction("PUSH", <<Immediate(42)>>), Instruction("HALT", <<>>)>>,
            [l \in {"zero_branch", "end"} |-> IF l = "end" THEN 5 ELSE 4])

\* a backward conditional jump: counts 2 down to 0
ProgCountdown ==
    Program(<<Instruction("PUSH", <<Immediate(2)>>), Instruction("PUSH", <<Immediate(1)>>),
              Instruction("SUB", <<>>), Instruction("JNZ", <<LabelRef("loop")>>),
              Instruction("HALT", <<>>)>>, [l \in {"loop"} |-> 1])

\* a jump to a label defined at the end of the file
ProgJumpEnd ==
    Program(<<Instruction("PUSH", <<Immediate(1)>>), Instruction("JMP", <<LabelRef("end")>>),
              Instruction("PUSH", <<Immediate(2)>>)>>, [l \in {"end"} |-> 3])

\* tests/integration/test_llm_opcodes.py: PUSH #10, PUSH #0, DIV, HALT
ProgDivZero ==
    Program(<<Instruction("PUSH", <<Immediate(10)>>), Instruction("PUSH", <<Immediate(0)>>),
              Instruction("DIV", <<>>), Instruction("HALT", <<>>)>>, NoLabels)

ProgEmpty == Program(<<>>, NoLabels)

ProgUnknown ==
    Program(<<Instruction("PUSH", <<Immediate(1)>>), Instruction("HALT", <<>>),
              Instruction("BOGUS", <<>>)>>, NoLabels)

ProgUndefinedLabel ==
    Program(<<Instruction("PUSH", <<Immediate(1)>>), Instruction("JMP", <<LabelRef("nowhere")>>),
              Instruction("HALT", <<>>)>>, NoLabels)

\* a str where JMP wants an int
ProgBadArgs ==
    Program(<<Instruction("PUSH", <<Immediate(1)>>), Instruction("JMP", <<StringLiteral("x")>>),
              Instruction("HALT", <<>>)>>, NoLabels)

\* integer jump targets, one before the start of the program
ProgNegJump ==
    Program(<<Instruction("PUSH", <<Immediate(0)>>), Instruction("JNZ", <<Immediate(-9)>>),
              Instruction("JMP", <<Immediate(-1)>>), Instruction("HALT", <<>>)>>, NoLabels)

\* tests/integration/test_programs.py, test_memory_operations
ProgMemory ==
    Program(<<Instruction("PUSH", <<Immediate(42)>>), Instruction("STORE", <<Address("100")>>),
              Instruction("PUSH", <<Immediate(0)>>), Instruction("LOAD", <<Address("100")>>),
              Instruction("HALT", <<>>)>>, NoLabels)

\* a RET without a CALL of its own, and no HALT
ProgRet == Program(<<Instruction("RET", <<>>), Instruction("POP", <<>>)>>, NoLabels)

\* a JZ that falls through on a non-zero top, then a JZ on an empty stack
ProgJzFall ==
    Program(<<Instruction("PUSH", <<Immediate(5)>>), Instruction("JZ", <<Immediate(0)>>),
              Instruction("POP", <<>>), Instruction("JZ", <<Immediate(0)>>)>>, NoLabels)

\* a JNZ on an empty stack
ProgJnzEmpty == Program(<<Instruction("JNZ", <<Immediate(0)>>)>>, NoLabels)

\* a str where CALL wants an int
ProgBadCall ==
    Program(<<Instruction("PUSH", <<Immediate(1)>>), Instruction("CALL", <<StringLiteral("x")>>),
              Instruction("HALT", <<>>)>>, NoLabels)

\* an operand where ADD takes none
ProgBadArity ==
    Program(<<Instruction("PUSH", <<Immediate(1)>>), Instruction("PUSH", <<Immediate(2)>>),
              Instruction("ADD", <<Immediate(3)>>), Instruction("HALT", <<>>)>>, NoLabels)

\* a division with a negative dividend and one with a negative divisor
ProgDiv ==
    Program(<<Instruction("PUSH", <<Immediate(-7)>>), Instruction("PUSH", <<Immediate(2)>>),
              Instruction("DIV", <<>>), Instruction("PUSH", <<Immediate(-3)>>),
              Instruction("DIV", <<>>), Instruction("HALT", <<>>)>>, NoLabels)

Programs ==
    {ProgSixPush, ProgLower, ProgJump, ProgCall, ProgNested, ProgRecurse, ProgSpin,
     ProgCond, ProgCountdown, ProgJumpEnd, ProgDivZero, ProgEmpty, ProgUnknown,
     ProgUndefinedLabel, ProgBadArgs, ProgNegJump, ProgMemory, ProgRet,
     ProgJzFall, ProgJnzEmpty, ProgBadCall, ProgBadArity, ProgDiv}

\* VMConfig(): the dataclass defaults
DefaultConfig == VMConfig(1000, 10000, 100000, 100)

\* the values a caller pushes on a VM before it runs a program
OpValues == {IntV(-7), IntV(0), IntV(2), StrV("s")}

\* the data stacks of up to MaxStackLen of these values
OpStacks == UNION {[1..n -> OpValues] : n \in 0..MaxStackLen}

\* the register files a caller sets up in state.registers: none set, or r1 set
OpRegisters == {EmptyDict, [r \in {"r1"} |-> IntV(5)]}

\* the memories a caller sets up: nothing stored, or one address stored
OpMemories == {EmptyDict, [a \in {StrV("100")} |-> IntV(5)]}

\* instructions of each opcode but JMP, CALL, LLMGEN and EVOLVE, with operands
\* its validate_args accepts; the jumps lead behind a one-instruction program
OpInstructions ==
    {Instruction(op, <<>>) :
        op \in {"POP", "DUP", "SWAP", "ROT", "OVER", "DROP", "CLEAR", "ADD", "SUB", "MUL",
                "DIV", "AND", "OR", "XOR", "NOT", "RET", "JOIN", "FREAD", "FWRITE", "FCLOSE"}}
    \cup {Instruction("PUSH", <<Immediate(2)>>), Instruction("PUSH", <<StringLiteral("s")>>),
          Instruction("JZ", <<Immediate(1)>>), Instruction("JNZ", <<Immediate(1)>>),
          Instruction("FORK", <<Immediate(0)>>),
          Instruction("LOAD", <<Address("100")>>), Instruction("LOAD", <<Address("200")>>),
          Instruction("STORE", <<Address("100")>>), Instruction("STORE", <<Address("200")>>),
          Instruction("FOPEN", <<StringLiteral("f")>>),
          Instruction("FOPEN", <<StringLiteral("f"), StringLiteral("w")>>),
          Instruction("FOPEN", <<StringLiteral("f"), StringLiteral("w"), StringLiteral("x")>>)}

\* the programs run on a prepared VM: every one of these instructions alone,
\* and a few sequences
OpPrograms ==
    {Program(<<i>>, NoLabels) : i \in OpInstructions}
    \cup {Program(<<Instruction("ROT", <<>>), Instruction("ROT", <<>>),
                    Instruction("ROT", <<>>)>>, NoLabels),
          Program(<<Instruction("PUSH", <<Immediate(2)>>), Instruction("POP", <<>>)>>, NoLabels),
          Program(<<Instruction("PUSH", <<StringLiteral("s")>>), Instruction("POP", <<>>)>>,
                  NoLabels),
          Program(<<Instruction("STORE", <<Address("200")>>),
                    Instruction("LOAD", <<Address("200")>>)>>, NoLabels),
          ProgMemory}

\* PUSH v; POP, for an int and for a str
ProgsPushPop ==
    {Program(<<Instruction("PUSH", <<operand>>), Instruction("POP", <<>>)>>, NoLabels) :
        operand \in {Immediate(2), StringLiteral("s")}}

\* ROT three times
ProgRotThrice ==
    Program(<<Instruction("ROT", <<>>), Instruction("ROT", <<>>), Instruction("ROT", <<>>)>>,
            NoLabels)

\* the ints at the ends of the 64-bit range, 2^63 - 1 and -2^63, with 2^32
\* and small ones
WideValues ==
    {WideV(FALSE, <<Base - 1, Base - 1, Base - 1, Base - 1, 7>>),
     WideV(TRUE, <<0, 0, 0, 0, 8>>), WideV(FALSE, <<0, 0, 4>>),
     IntV(1), IntV(-1), IntV(2)}

\* the data stacks of these ints that a caller pushes
WideStacks == UNION {[1..n -> WideValues] : n \in 1..MaxStackLen}

\* the arithmetic opcodes, each as a program of its own
WidePrograms ==
    {Program(<<Instruction(name, <<>>)>>, NoLabels) : name \in {"ADD", "SUB", "MUL", "NOT"}}

\* the sources given to SovereignInterpreter.run: a division by zero, a run
\* that halts, a label and a jump to it, an opcode the registry does not have,
\* a POP on an empty stack, text that does not parse, nothing, and the
\* sources of tests/integration/test_llm_opcodes.py
Sources ==
    {<<Instruction("PUSH", <<Immediate(10)>>), Instruction("PUSH", <<Immediate(0)>>),
       Instruction("DIV", <<>>), Instruction("HALT", <<>>)>>,
     <<Instruction("PUSH", <<Immediate(1)>>), Instruction("HALT", <<>>)>>,
     <<Instruction("JMP", <<LabelRef("end")>>), Instruction("PUSH", <<Immediate(1)>>),
       Label("end"), Instruction("HALT", <<>>)>>,
     <<Instruction("PUSH", <<Immediate(1)>>), Instruction("FOO", <<>>)>>,
     <<Instruction("POP", <<>>)>>,
     <<Instruction("PUSH", <<Immediate(1)>>), Unparsable("No terminal matches '$'")>>,
     <<>>,
     <<Instruction("LLMGEN", <<StringLiteral("Generate invalid code")>>),
       Instruction("HALT", <<>>)>>,
     <<Instruction("EVOLVE", <<StringLiteral("No code context")>>),
       Instruction("HALT", <<>>)>>}

\* the statements of the parsed sources: two labels, a push, and a
\* conditional jump to the first label
Statements ==
    {Label("a"), Label("b"), Instruction("PUSH", <<Immediate(1)>>),
     Instruction("JZ", <<LabelRef("a")>>)}

\* the sources of up to MaxStatements statements
StatementSequences == UNION {[1..n -> Statements] : n \in 0..MaxStatements}

\* the instructions the caller of execute_instruction passes
Instructions ==
    {Instruction("JMP", <<LabelRef("end")>>), Instruction("PUSH", <<Immediate(1)>>)}

\* the limits the VM is constructed with: tight ones, and ones under which
\* the longer programs run to their end; memory for two ints, or for no str
Configs == {VMConfig(2, 16, 5, 1), VMConfig(3, 16, 10, 2)}

\* the values the caller of the VM's own stack and memory methods passes
DataValues == {IntV(7), StrV("s")}

\* the return addresses the caller of push_control passes
ControlValues == {0, 7}

\* the addresses the caller of set_memory passes
MemoryAddresses == {StrV("100")}

----------------------------------------------------------------------------
(* The state machine *)

\* SovereignVM(config)
Init ==
    /\ config \in Configs
    /\ state = VMState
    /\ program = NoProgram
    /\ mode = "idle"
    /\ raised = None
    /\ runs = 0
    /\ fetches = 0
    /\ fresh = TRUE
    /\ linear = TRUE
    /\ last = Event("init", 0, None, <<>>)

\* a call of execute(p), up to the head of its loop; a program with an unknown
\* opcode makes load_program raise, outside the try of execute
Execute(p) ==
    /\ mode = "idle"
    /\ runs < MaxRuns
    /\ LET loaded == load_program(state, p)
       IN /\ state' = IF loaded.err # None THEN loaded.state ELSE EnterLoop(loaded.state)
          /\ mode' = IF loaded.err # None THEN "idle" ELSE "loop"
          /\ raised' = loaded.err
          /\ last' = Event(IF loaded.err # None THEN "load_error" ELSE "execute", 0, None, <<>>)
    /\ program' = p
    /\ runs' = runs + 1
    /\ fetches' = 0
    /\ fresh' = (state = VMState)
    /\ linear' = TRUE
    /\ UNCHANGED config

\* what one evaluation `it` of the loop leaves behind
Iterated(it) ==
    /\ state' = it.state
    /\ mode' = IF it.done THEN "idle" ELSE "loop"
    /\ raised' = it.err
    /\ last' = it.event
    /\ linear' = (linear /\ (it.event.kind = "dispatch"
                              => it.state.program_counter = state.program_counter + 1))

\* one evaluation of the loop of the execute call in progress
Step ==
    /\ mode = "loop"
    /\ Iterated(LoopIteration(state, program, config))
    /\ fetches' = IF LoopCondition(state, program) THEN fetches + 1 ELSE fetches
    /\ UNCHANGED <<config, program, runs, fresh>>

\* a call of reset() between two calls of execute
Reset ==
    /\ mode = "idle"
    /\ state' = reset
    /\ program' = NoProgram
    /\ raised' = None
    /\ last' = Event("reset", 0, None, <<>>)
    /\ UNCHANGED <<config, mode, runs, fetches, fresh, linear>>

\* what a call of one of the VM's stack and memory methods leaves behind
MethodCall(kind, result, args) ==
    /\ mode = "idle"
    /\ runs < MaxRuns
    /\ state' = result.state
    /\ raised' = result.err
    /\ last' = Event(kind, state.program_counter, None, args)
    /\ runs' = runs + 1
    /\ UNCHANGED <<config, program, mode, fetches, fresh, linear>>

\* a call of push_data(v) between two calls of execute
PushData(v) == MethodCall("push_data", push_data(state, config, v), <<v>>)

\* a call of pop_data()
PopData == MethodCall("pop_data", pop_data(state, config), <<>>)

\* a call of push_control(v)
PushControl(v) == MethodCall("push_control", push_control(state, config, v), <<v>>)

\* a call of pop_control()
PopControl == MethodCall("pop_control", pop_control(state, config), <<>>)

\* a call of set_memory(a, v)
SetMemory(a, v) == MethodCall("set_memory", set_memory(state, config, a, v), <<a, v>>)

\* what a call of execute_instruction that did `ran` leaves behind
InstructionRan(ran) ==
    /\ state' = ran.state
    /\ raised' = ran.err
    /\ last' = Event("execute_instruction", state.program_counter, ran.opcode, ran.args)

\* a call of execute_instruction(i) from outside execute: no fetch is counted,
\* the program counter is not advanced and no error is recorded in error_state
ExecuteInstruction(i) ==
    /\ mode = "idle"
    /\ runs < MaxRuns
    /\ InstructionRan(execute_instruction(state, program, i))
    /\ runs' = runs + 1
    /\ UNCHANGED <<config, program, mode, fetches, fresh, linear>>

Next ==
    \/ \E p \in Programs : Execute(p)
    \/ Step
    \/ Reset
    \/ \E v \in DataValues : PushData(v)
    \/ PopData
    \/ \E v \in ControlValues : PushControl(v)
    \/ PopControl
    \/ \E a \in MemoryAddresses, v \in DataValues : SetMemory(a, v)
    \/ \E i \in Instructions : ExecuteInstruction(i)

Spec == Init /\ [][Next]_vars

\* a call of execute, once made, runs on the caller's thread until it ends
FairSpec == Spec /\ WF_vars(Step)

RECURSIVE PushAll(_, _, _)
\* the state after push_data(v) for each v of `values` in turn, none of which raises
PushAll(st, cfg, values) ==
    IF values = <<>> THEN st
    ELSE push_data(PushAll(st, cfg, Front(values)), cfg, Top(values)).state

RECURSIVE StoreAll(_, _, _)
\* the state after set_memory(a, mem[a]) for each address of `mem`, none of which raises
StoreAll(st, cfg, mem) ==
    IF DOMAIN mem = {} THEN st
    ELSE LET a == CHOOSE x \in DOMAIN mem : TRUE
         IN set_memory(StoreAll(st, cfg, [x \in (DOMAIN mem) \ {a} |-> mem[x]]),
                       cfg, a, mem[a]).state

\* a VM with the default limits on which the caller has pushed a stack of
\* values and stored a memory, before it runs one program
OpInit ==
    /\ config = DefaultConfig
    /\ \E stack \in OpStacks, mem \in OpMemories :
            state = StoreAll(PushAll(VMState, config, stack), config, mem)
    /\ program = NoProgram
    /\ mode = "idle"
    /\ raised = None
    /\ runs = 0
    /\ fetches = 0
    /\ fresh = TRUE
    /\ linear = TRUE
    /\ last = Event("prepared", 0, None, <<>>)

\* the one call of execute made on the prepared VM
RunPrepared(p) == last.kind = "prepared" /\ Execute(p)

\* no call of execute has been made on the prepared VM
BeforeRun == last.kind \in {"prepared", "push_data", "pop_data"}

\* calls of push_data and pop_data made on the prepared VM instead of a run
PushPrepared(v) == BeforeRun /\ PushData(v)

PopPrepared == BeforeRun /\ PopData

OpNext ==
    \/ \E p \in OpPrograms : RunPrepared(p)
    \/ Step
    \/ \E v \in DataValues : PushPrepared(v)
    \/ PopPrepared

\* one program run on a prepared VM
OpSpec == OpInit /\ [][OpNext]_vars

\* JMP #-1 ; CALL #5: the jump leads to index -1, where the loop fetches the
\* last instruction of the list
ProgNegCall ==
    Program(<<Instruction("JMP", <<Immediate(-1)>>), Instruction("CALL", <<Immediate(5)>>)>>,
            NoLabels)

\* the programs with a CALL
CallPrograms == {ProgCall, ProgNested, ProgRecurse, ProgBadCall, ProgNegCall}

CallNext ==
    \/ \E p \in CallPrograms : Execute(p)
    \/ Step

\* calls of execute alone, on a VM that starts fresh
CallSpec == Init /\ [][CallNext]_vars

\* limits under which some string values fit and some calls are refused
MethodConfigs == {VMConfig(2, 16, 5, 1), VMConfig(3, 144, 10, 2)}

\* set_memory(address, value): the address argument
MethodAddresses == {StrV("100"), StrV("200")}

MethodInit ==
    /\ config \in MethodConfigs
    /\ state = VMState
    /\ program = NoProgram
    /\ mode = "idle"
    /\ raised = None
    /\ runs = 0
    /\ fetches = 0
    /\ fresh = TRUE
    /\ linear = TRUE
    /\ last = Event("init", 0, None, <<>>)

MethodNext ==
    \/ \E v \in DataValues : PushData(v)
    \/ PopData
    \/ \E v \in ControlValues : PushControl(v)
    \/ PopControl
    \/ \E a \in MethodAddresses, v \in DataValues : SetMemory(a, v)

\* a fresh VM on which only the stack and memory methods are called
MethodSpec == MethodInit /\ [][MethodNext]_vars

\* the instructions that name a register, set or unset
RegInstructions ==
    {Instruction("PUSH", <<Register(1)>>), Instruction("PUSH", <<Register(2)>>),
     Instruction("STORE", <<Register(1)>>), Instruction("LOAD", <<Register(2)>>)}

\* every instruction, followed by a read of register r1
RegPrograms ==
    {Program(<<i, Instruction("PUSH", <<Register(1)>>)>>, NoLabels) :
        i \in OpInstructions \cup RegInstructions}

\* a VM with the default limits on which the caller has pushed a stack of
\* values and assigned state.registers
RegInit ==
    /\ config = DefaultConfig
    /\ \E stack \in OpStacks, regs \in OpRegisters :
            state = [PushAll(VMState, config, stack) EXCEPT !.registers = regs]
    /\ program = NoProgram
    /\ mode = "idle"
    /\ raised = None
    /\ runs = 0
    /\ fetches = 0
    /\ fresh = TRUE
    /\ linear = TRUE
    /\ last = Event("prepared", 0, None, <<>>)

\* a call of execute_instruction made on the prepared VM instead of a run
InstructionPrepared(i) == last.kind = "prepared" /\ ExecuteInstruction(i)

RegNext ==
    \/ \E p \in RegPrograms : RunPrepared(p)
    \/ Step
    \/ \E i \in OpInstructions \cup RegInstructions : InstructionPrepared(i)

RegSpec == RegInit /\ [][RegNext]_vars

\* a VM with the default limits on which the caller has pushed 64-bit ints
WideInit ==
    /\ config = DefaultConfig
    /\ \E stack \in WideStacks : state = PushAll(VMState, config, stack)
    /\ program = NoProgram
    /\ mode = "idle"
    /\ raised = None
    /\ runs = 0
    /\ fetches = 0
    /\ fresh = TRUE
    /\ linear = TRUE
    /\ last = Event("prepared", 0, None, <<>>)

WideNext ==
    \/ \E p \in WidePrograms : RunPrepared(p)
    \/ Step

\* one arithmetic opcode run on 64-bit ints
WideSpec == WideInit /\ [][WideNext]_vars

\* what a step of SovereignInterpreter.run outside vm.execute did, and the
\* class of the exception it raised
RunEvent(kind, raises) ==
    [kind |-> kind, pc |-> state.program_counter, opcode |-> None, args |-> <<>>,
     raises |-> raises]

\* no call of run is in progress on the interpreter
RunIdle == mode = "idle" /\ last.kind \in {"init", "run_parse_error", "run_except", "run_return"}

\* SovereignInterpreter(): a parser and a VM with the default configuration
RunInit ==
    /\ config = DefaultConfig
    /\ state = VMState
    /\ program = NoProgram
    /\ mode = "idle"
    /\ raised = None
    /\ runs = 0
    /\ fetches = 0
    /\ fresh = TRUE
    /\ linear = TRUE
    /\ last = Event("init", 0, None, <<>>)

\* a call of run(source), up to the head of the loop of vm.execute: the parse,
\* whose ParseError is raised again as it is, and the call of vm.execute
Run(source) ==
    /\ RunIdle
    /\ runs < MaxRuns
    /\ LET parsed == SovereignParser_parse(source)
       IN IF parsed.err # None
          THEN /\ raised' = parsed.err
               /\ last' = RunEvent("run_parse_error", "ParseError")
               /\ runs' = runs + 1
               /\ UNCHANGED <<config, state, program, mode, fetches, fresh, linear>>
          ELSE Execute(parsed.program)

\* vm.execute raised inside run: the except clause raises RuntimeError from it
RunExcept ==
    /\ mode = "idle"
    /\ ~RunIdle
    /\ raised # None
    /\ raised' = SovereignInterpreter_run_except(raised)
    /\ last' = RunEvent("run_except", "RuntimeError")
    /\ UNCHANGED <<config, state, program, mode, runs, fetches, fresh, linear>>

\* vm.execute returned inside run: run returns
RunReturn ==
    /\ mode = "idle"
    /\ ~RunIdle
    /\ raised = None
    /\ last' = RunEvent("run_return", None)
    /\ UNCHANGED <<config, state, program, mode, raised, runs, fetches, fresh, linear>>

\* the first call of run on an interpreter
RunFirst(source) == last.kind = "init" /\ Run(source)

ParseNext ==
    \/ \E source \in StatementSequences : RunFirst(source)
    \/ Step
    \/ RunExcept
    \/ RunReturn

\* one call of run on a source of labels and instructions
ParseSpec == RunInit /\ [][ParseNext]_vars

RunNext ==
    \/ \E source \in Sources : Run(source)
    \/ Step
    \/ RunExcept
    \/ RunReturn

\* calls of run on one interpreter
RunSpec == RunInit /\ [][RunNext]_vars

----------------------------------------------------------------------------
(* Properties *)

\* the loop of execute is at its head with its condition true: a fetch is about to be made
AtFetch == mode = "loop" /\ LoopCondition(state, program)

\* the step just taken dispatched an instruction, and its opcode returned
Dispatched == mode = "loop" /\ last'.kind = "dispatch"

\* C1: in every state reached during execute, neither the data stack nor the
\* control stack holds more than max_stack_size values.
C1_StacksWithinMaxStackSize ==
    /\ Len(state.data_stack) <= config.max_stack_size
    /\ Len(state.control_stack) <= config.max_stack_size

\* the program with every opcode in its canonical upper-case spelling
UpperCased(prog) ==
    [prog EXCEPT !.instructions =
        [j \in 1..Len(prog.instructions) |->
            [prog.instructions[j] EXCEPT !.opcode = upper(prog.instructions[j].opcode)]]]

\* C2: on a fresh VM, a program and the same program with its opcodes spelled
\* in upper case end in the same terminal state; stated at the entry of a call
\* of execute on a fresh VM, for the program being executed.
C2_CaseInsensitive ==
    (mode = "loop" /\ fetches = 0 /\ fresh)
        => execute(VMState, program, config).state
             = execute(VMState, UpperCased(program), config).state

\* the error the body of execute's try raises in the iteration that starts in
\* state st, or None
TryBodyError(st, prog, cfg) ==
    LET checked == _check_execution_limit(st, cfg)
        instruction == Fetch(checked.state, prog)
    IN IF checked.err # None THEN checked.err
       ELSE IF FetchRaises(checked.state, prog) THEN "list index out of range"
       ELSE IF instruction.opcode = "HALT" THEN None
       ELSE execute_instruction(checked.state, prog, instruction).err

\* C3: when a step of the fetch loop raises, the call ends there: error_state
\* holds the error's message, running is false and the same error reaches the
\* caller of execute.
C3_LoopErrorPropagates ==
    [][(AtFetch /\ TryBodyError(state, program, config) # None)
        => /\ mode' = "idle"
           /\ raised' = TryBodyError(state, program, config)
           /\ state'.error_state = TryBodyError(state, program, config)
           /\ ~state'.running]_vars

\* a division by zero ended a call of execute
C3_Witness ==
    /\ mode = "idle"
    /\ last.kind = "instruction_error"
    /\ last.opcode = "DIV"
    /\ raised = "Division by zero"
    /\ state.error_state = "Division by zero"

C5_LimitErrorExactlyAtMax ==
    [][AtFetch
        => /\ state'.execution_steps = state.execution_steps + 1
           /\ (raised' = StepLimitMessage(config)
                 <=> state.execution_steps + 1 = config.max_execution_steps)]_vars

\* C6: on entry to every fetch, execution_steps <= max_execution_steps.
C6_StepsWithinLimitAtFetch ==
    AtFetch => state.execution_steps <= config.max_execution_steps

\* a call of execute on a fresh VM found HALT at its loop head, having
\* dispatched every instruction before it in order
HaltedLinear == mode = "idle" /\ fresh /\ linear /\ last.kind = "halt"

\* C7 as stated: a linear program whose first HALT is at index k ends, on a
\* fresh VM, with execution_steps == k.
C7_StepsEqualHaltIndex ==
    HaltedLinear => state.execution_steps = state.program_counter

\* C7, amended: every loop-head fetch adds 1 to execution_steps, the fetch that
\* finds HALT included: while a fresh VM runs a program linearly execution_steps
\* equals the number of instructions dispatched, and when the run finds its
\* first HALT at index k it ends without error with execution_steps == k + 1.
C7_StepsCountHaltFetch ==
    /\ (mode = "loop" /\ fresh /\ linear)
          => state.execution_steps = state.program_counter
    /\ HaltedLinear
          => /\ state.execution_steps = state.program_counter + 1
             /\ program.instructions[state.program_counter + 1].opcode = "HALT"
             /\ \A j \in 1..state.program_counter : program.instructions[j].opcode # "HALT"
             /\ state.error_state = None
             /\ raised = None

\* six PUSH and the HALT at index 6 were fetched: seven steps
C7_Witness ==
    /\ HaltedLinear
    /\ program = ProgSixPush
    /\ state.program_counter = 6
    /\ state.execution_steps = 7

\* C8: a dispatched CALL at index i pushes i + 1 on the control stack and a
\* dispatched RET pops the top of the control stack and continues there; no
\* other opcode touches the control stack.  So return addresses are used in
\* LIFO order, each once, and the RET that matches a CALL continues at i + 1
\* with the control stack as it was before the CALL.
C8_CallRetDiscipline ==
    [][Dispatched
        => /\ last'.opcode = "CALL"
                => /\ state'.control_stack = Append(state.control_stack, last'.pc + 1)
                   /\ state'.program_counter = last'.args[1].i
           /\ last'.opcode = "RET"
                => /\ state.control_stack # <<>>
                   /\ state'.program_counter = Top(state.control_stack)
                   /\ state'.control_stack = Front(state.control_stack)
           /\ last'.opcode \notin {"CALL", "RET"}
                => state'.control_stack = state.control_stack]_vars

\* the inner RET of two nested calls has returned behind the inner CALL (index
\* 3), leaving the return address of the outer CALL (index 1) on the stack
C8_Witness ==
    /\ program = ProgNested
    /\ fresh
    /\ last.kind = "dispatch"
    /\ last.opcode = "RET"
    /\ state.program_counter = 4
    /\ state.control_stack = <<2>>

\* the message of the call-depth error
CallDepthMessage(cfg) ==
    "Call depth would exceed maximum of " \o ToString(cfg.max_call_depth)

\* C9: the control stack never holds more than max_call_depth return
\* addresses, and a self-recursive program ends with the call-depth error.
C9_CallDepthEnforced ==
    /\ fresh => Len(state.control_stack) <= config.max_call_depth
    /\ (mode = "idle" /\ fresh /\ runs > 0 /\ program = ProgRecurse)
          => raised = CallDepthMessage(config)

\* the dispatched instruction transfers control: JMP and CALL always, JZ on a
\* zero and JNZ on a non-zero top of the data stack
JumpTaken(event, st) ==
    \/ event.opcode \in {"JMP", "CALL"}
    \/ event.opcode = "JZ" /\ IsZero(Top(st.data_stack))
    \/ event.opcode = "JNZ" /\ ~IsZero(Top(st.data_stack))

\* C10: after a dispatched JMP t, taken JZ t or JNZ t, or CALL t the loop head
\* is at program_counter == t; every dispatch is of the instruction the
\* program counter pointed at; and at program_counter == len(instructions)
\* execute ends without error, dispatching nothing and changing nothing.
C10_JumpLandsOnTarget ==
    [][/\ (Dispatched /\ JumpTaken(last', state))
            => state'.program_counter = last'.args[1].i
       /\ Dispatched
            => /\ last'.pc = state.program_counter
               /\ last'.opcode = get_opcode(Fetch(state, program).opcode)
       /\ (mode = "loop" /\ state.program_counter = Len(program.instructions))
            => /\ mode' = "idle"
               /\ raised' = None
               /\ state' = state]_vars

\* a jump to a label at the end of the file ended the call, the PUSH between
\* the jump and the label skipped
C10_Witness ==
    /\ mode = "idle"
    /\ program = ProgJumpEnd
    /\ fresh
    /\ last.kind = "exit"
    /\ state.program_counter = 3
    /\ state.data_stack = <<IntV(1)>>
    /\ raised = None

\* the step just taken reached the execute of a JZ or JNZ: the opcode was
\* looked up and its one integer argument resolved and accepted
ConditionalJumpRan ==
    /\ mode = "loop"
    /\ last'.kind \in {"dispatch", "instruction_error"}
    /\ last'.opcode \in {"JZ", "JNZ"}
    /\ last'.args # <<>>
    /\ validate_args(last'.opcode, last'.args)

\* C11: JZ t and JNZ t read the top of the data stack without popping it: the
\* stack is the same after the dispatch, taken or not; JZ continues at t iff
\* the top equals 0, JNZ iff it differs from 0, otherwise at the next
\* instruction; on an empty stack both raise and the run ends.
C11_ConditionalJumpReadsTop ==
    [][ConditionalJumpRan
        => IF state.data_stack = <<>>
           THEN /\ last'.kind = "instruction_error"
                /\ raised' = "Data stack empty for " \o last'.opcode
                /\ mode' = "idle"
           ELSE /\ last'.kind = "dispatch"
                /\ state'.data_stack = state.data_stack
                /\ state'.program_counter =
                      IF (last'.opcode = "JZ") <=> IsZero(Top(state.data_stack))
                      THEN last'.args[1].i
                      ELSE state.program_counter + 1]_vars

\* a JZ on a non-zero top fell through to the next instruction and left the
\* tested value on the stack
C11_Witness ==
    /\ mode = "loop"
    /\ program = ProgJzFall
    /\ fresh
    /\ last.kind = "dispatch"
    /\ last.opcode = "JZ"
    /\ state.program_counter = 2
    /\ state.data_stack = <<IntV(5)>>

\* C12: at every loop head of execute, 0 <= program_counter <= len(instructions).
C12_ProgramCounterInRange ==
    mode = "loop"
        => /\ 0 <= state.program_counter
           /\ state.program_counter <= Len(program.instructions)

\* the last step ended a call of execute: it returned or raised
ExecuteEnded ==
    /\ mode = "idle"
    /\ last.kind \in {"exit", "halt", "limit_error", "fetch_error", "instruction_error",
                      "load_error"}

\* C13: whenever execute returns or raises, running == false.
C13_NotRunningAfterExecute == ExecuteEnded => ~state.running

RECURSIVE SumCost(_)
\* the estimated size of the values of a list
SumCost(s) == IF s = <<>> THEN 0 ELSE ValueCost(Top(s)) + SumCost(Front(s))

RECURSIVE DictCost(_)
\* the estimated size of the values of a dict
DictCost(d) ==
    IF DOMAIN d = {} THEN 0
    ELSE LET a == CHOOSE x \in DOMAIN d : TRUE
         IN ValueCost(d[a]) + DictCost([x \in (DOMAIN d) \ {a} |-> d[x]])

\* C14: during execute memory_usage follows the contents: a dispatched PUSH,
\* DUP, OVER or LOAD adds the cost of the value it pushed, a dispatched POP or
\* DROP subtracts the cost of the value it popped, and a run on a fresh VM
\* never goes on with values on the data stack and in memory that cost more
\* than max_memory_size.
C14_MemoryUsageFollowsContents ==
    /\ [][Dispatched
            => /\ last'.opcode \in {"PUSH", "DUP", "OVER", "LOAD"}
                    => state'.memory_usage
                         = state.memory_usage + ValueCost(Top(state'.data_stack))
               /\ last'.opcode \in {"POP", "DROP"}
                    => state'.memory_usage
                         = state.memory_usage - ValueCost(Top(state.data_stack))]_vars
    /\ [](mode = "loop" /\ fresh
            => SumCost(state.data_stack) + DictCost(state.memory) <= config.max_memory_size)

\* C15: memory_usage <= max_memory_size after every dispatch and after every
\* call of push_data, push_control and set_memory, a call that raised included.
C15_MemoryUsageWithinLimit == state.memory_usage <= config.max_memory_size

\* the positions of the instructions whose opcode the registry does not have
UnknownOpcodes(prog) ==
    {j \in 1..Len(prog.instructions) : upper(prog.instructions[j].opcode) \notin RegisteredOpcodes}

\* the step being taken is a call of execute
ExecuteCalled == mode = "idle" /\ last'.kind \in {"execute", "load_error"}

\* C16: execute of a program with an opcode that is not registered raises
\* 'Unknown opcode: X' out of load_program, wherever the opcode stands and
\* before anything is dispatched: the stacks, memory and execution_steps are
\* as before the call, program_counter == 0, running is false, error_state is none.
C16_UnknownOpcodeAtLoad ==
    [][(ExecuteCalled /\ UnknownOpcodes(program') # {})
        => /\ mode' = "idle"
           /\ last'.kind = "load_error"
           /\ raised' = "Unknown opcode: "
                            \o program'.instructions[Min(UnknownOpcodes(program'))].opcode
           /\ state'.data_stack = state.data_stack
           /\ state'.control_stack = state.control_stack
           /\ state'.memory = state.memory
           /\ state'.execution_steps = state.execution_steps
           /\ state'.program_counter = 0
           /\ ~state'.running
           /\ state'.error_state = None]_vars

\* a program with an unknown opcode behind its HALT was refused on a VM that
\* an earlier run had left with a value on the stack and steps counted
C16_Witness ==
    /\ mode = "idle"
    /\ last.kind = "load_error"
    /\ program = ProgUnknown
    /\ raised = "Unknown opcode: BOGUS"
    /\ state.data_stack # <<>>
    /\ state.execution_steps > 0
    /\ state.program_counter = 0

\* the step being taken, inside the loop of execute, handed the instruction at
\* the program counter to execute_instruction
Reached == mode = "loop" /\ last'.kind \in {"dispatch", "instruction_error"}

\* the stacks, the memory and the program counter are as before the step
OperandsUntouched ==
    /\ state'.data_stack = state.data_stack
    /\ state'.control_stack = state.control_stack
    /\ state'.memory = state.memory
    /\ state'.program_counter = state.program_counter

\* what C17 says of a step that runs execute_instruction on i (an instruction
\* with a registered opcode): a label missing from the loaded program's map
\* raises before the opcode runs, and the labels otherwise resolve to their
\* index in the map
LabelOutcome(i) ==
    LET labelled == {j \in 1..Len(i.operands) : i.operands[j].k = "LabelRef"}
        missing == {j \in labelled :
                        \/ program = NoProgram
                        \/ i.operands[j].name \notin DOMAIN program.labels}
    IN IF missing # {}
       THEN /\ raised' = "Undefined label: " \o i.operands[Min(missing)].name
            /\ OperandsUntouched
       ELSE \A j \in labelled : last'.args[j] = IntV(program.labels[i.operands[j].name])

\* C17: a LabelRef operand resolves to the label's index in the loaded
\* program's label map; an instruction naming a label that the map lacks, or
\* run while no program is loaded, raises 'Undefined label: X' before its
\* opcode runs and leaves stacks, memory and program counter alone; loading a
\* program with such an instruction raises nothing.
C17_LabelResolution ==
    [][/\ (Reached /\ UnknownOpcodes(program) = {}) => LabelOutcome(Fetch(state, program))
       /\ \A i \in Instructions : ExecuteInstruction(i) => LabelOutcome(i)
       /\ (ExecuteCalled /\ UnknownOpcodes(program') = {})
            => (mode' = "loop" /\ raised' = None)]_vars

\* the JMP to a label that the program does not define was reached, after the
\* PUSH before it, and raised
C17_Witness ==
    /\ mode = "idle"
    /\ program = ProgUndefinedLabel
    /\ fresh
    /\ last.kind = "instruction_error"
    /\ last.pc = 1
    /\ raised = "Undefined label: nowhere"
    /\ state.data_stack = <<IntV(1)>>
    /\ state.program_counter = 1

\* the jump of a call of execute_instruction made with no program loaded raised
C17_WitnessNoProgram ==
    /\ program = NoProgram
    /\ last.kind = "execute_instruction"
    /\ raised = "Undefined label: end"

\* the number of operands an opcode takes (FOPEN: one or two)
TakesOneOperand(name) ==
    name \in {"PUSH", "JMP", "JZ", "JNZ", "CALL", "FORK", "LOAD", "STORE", "LLMGEN", "EVOLVE"}

\* the arguments are not what the opcode takes: their number is wrong, or the
\* target of a JMP, JZ, JNZ or CALL is not an integer
BadArguments(name, args) ==
    \/ TakesOneOperand(name) /\ Len(args) # 1
    \/ ~TakesOneOperand(name) /\ name # "FOPEN" /\ Len(args) # 0
    \/ name \in {"JMP", "JZ", "JNZ", "CALL"} /\ Len(args) = 1 /\ ~IsInt(args[1])

\* C18: an instruction reached with the wrong number of operands, or with a
\* non-integer target for JMP, JZ, JNZ or CALL, raises 'Invalid arguments for
\* <OP>' before the opcode's execute runs: stacks, memory and program counter
\* are unchanged.
C18_ArgumentsValidatedFirst ==
    [][(/\ Reached
        /\ last'.opcode # None
        /\ Len(last'.args) = Len(Fetch(state, program).operands)
        /\ BadArguments(last'.opcode, last'.args))
        => /\ raised' = "Invalid arguments for " \o Fetch(state, program).opcode
           /\ OperandsUntouched]_vars

\* q is the floor of a / b
IsFloorQuotient(a, b, q) ==
    LET r == a - b * q
    IN IF b > 0 THEN 0 <= r /\ r < b ELSE b < r /\ r <= 0

\* C19: a DIV reached with b == 0 on top of the stack raises 'Division by
\* zero' whatever the dividend, which ends the run with that error_state and
\* running false; with integers a and b # 0 it replaces them by the integer
\* quotient of a by b (the floor of a / b).
C19_DivisionByZero ==
    [][(/\ Reached
        /\ last'.opcode = "DIV"
        /\ Fetch(state, program).operands = <<>>
        /\ Len(state.data_stack) >= 2)
        => LET b == Top(state.data_stack)
               a == Second(state.data_stack)
           IN IF IsZero(b)
              THEN /\ last'.kind = "instruction_error"
                   /\ raised' = "Division by zero"
                   /\ mode' = "idle"
                   /\ state'.error_state = "Division by zero"
                   /\ ~state'.running
              ELSE (IsInt(a) /\ IsInt(b))
                     => /\ last'.kind = "dispatch"
                        /\ Len(state'.data_stack) = Len(state.data_stack) - 1
                        /\ Front(state'.data_stack) = Front(Front(state.data_stack))
                        /\ IsInt(Top(state'.data_stack))
                        /\ IsFloorQuotient(a.i, b.i, Top(state'.data_stack).i)]_vars

\* PUSH #10, PUSH #0, DIV ended with the division error at index 2
C19_Witness ==
    /\ mode = "idle"
    /\ program = ProgDivZero
    /\ last.kind = "instruction_error"
    /\ last.pc = 2
    /\ state.error_state = "Division by zero"
    /\ ~state.running

\* -7 was divided by 2 and the quotient by -3
C19_WitnessQuotient ==
    /\ program = ProgDiv
    /\ fresh
    /\ last.kind = "dispatch"
    /\ last.opcode = "DIV"
    /\ state.program_counter = 5
    /\ state.data_stack = <<IntV(1)>>

\* C20: when a dispatch raises, data_stack, control_stack and memory are as
\* they were before that dispatch.
C20_FailedDispatchLeavesNoTrace ==
    [][(mode = "loop" /\ last'.kind = "instruction_error")
        => /\ state'.data_stack = state.data_stack
           /\ state'.control_stack = state.control_stack
           /\ state'.memory = state.memory]_vars

----------------------------------------------------------------------------
(* Properties of the opcodes, on one program run on a prepared VM *)

\* the step being taken reached the execute of an opcode that takes no
\* operand, with at least n values on the data stack
ReachedWith(names, n) ==
    /\ Reached
    /\ last'.opcode \in names
    /\ Fetch(state, program).operands = <<>>
    /\ Len(state.data_stack) >= n

BinaryOpcodes == {"ADD", "SUB", "MUL", "DIV", "AND", "OR", "XOR"}

\* a op b, for the operator of a binary opcode
BinaryResult(name, a, b) ==
    CASE name = "ADD" -> PyAdd(a, b)
      [] name = "SUB" -> PySub(a, b)
      [] name = "MUL" -> PyMul(a, b)
      [] name = "DIV" -> PyFloorDiv(a, b)
      [] name = "AND" -> PyAnd(a, b)
      [] name = "OR" -> PyOr(a, b)
      [] name = "XOR" -> PyXor(a, b)

\* C21: a binary opcode on a stack of at least two values, the top b and the
\* second a being integers (b # 0 for DIV), replaces the two by a op b: the
\* values below are untouched and the stack is one shorter; SUB pushes
\* second - top and DIV second / top.
C21_BinaryOperandOrder ==
    [][ReachedWith(BinaryOpcodes, 2)
        => LET b == Top(state.data_stack)
               a == Second(state.data_stack)
           IN (IsInt(a) /\ IsInt(b) /\ ~(last'.opcode = "DIV" /\ b.i = 0))
                => /\ last'.kind = "dispatch"
                   /\ state'.data_stack
                        = Append(Front(Front(state.data_stack)),
                                 BinaryResult(last'.opcode, a, b))
                   /\ last'.opcode = "SUB" => Top(state'.data_stack) = IntV(a.i - b.i)
                   /\ last'.opcode = "DIV"
                        => IsFloorQuotient(a.i, b.i, Top(state'.data_stack).i)]_vars

\* SUB on a stack ending 0, -7, 2 left 0, -9
C21_Witness ==
    /\ last.kind = "dispatch"
    /\ last.opcode = "SUB"
    /\ state.data_stack = <<IntV(0), IntV(-9)>>

\* the step being taken reached the execute of `name` with one resolved argument
ReachedWithArgument(name) ==
    /\ Reached
    /\ last'.opcode = name
    /\ Len(Fetch(state, program).operands) = 1
    /\ Len(last'.args) = 1

\* C23: STORE @a pops the top v of the data stack and sets memory[a] = v,
\* changing no other address; LOAD @a pushes the value stored at a, or 0 when
\* nothing is, and leaves memory as it is, creating no entry.  PUSH #42,
\* STORE @100, PUSH #0, LOAD @100, HALT on a fresh VM ends with data_stack
\* [0, 42] and memory {"100": 42}.
C23_LoadStore ==
    /\ [][/\ (ReachedWithArgument("STORE") /\ state.data_stack # <<>>)
               => /\ last'.kind = "dispatch"
                  /\ state'.data_stack = Front(state.data_stack)
                  /\ DOMAIN state'.memory = DOMAIN state.memory \cup {last'.args[1]}
                  /\ state'.memory[last'.args[1]] = Top(state.data_stack)
                  /\ \A x \in DOMAIN state.memory \ {last'.args[1]} :
                           state'.memory[x] = state.memory[x]
          /\ ReachedWithArgument("LOAD")
               => /\ last'.kind = "dispatch"
                  /\ state'.memory = state.memory
                  /\ state'.data_stack
                       = Append(state.data_stack,
                                IF last'.args[1] \in DOMAIN state.memory
                                THEN state.memory[last'.args[1]] ELSE IntV(0))]_vars
    /\ []((program = ProgMemory /\ fresh /\ mode = "idle" /\ last.kind \in {"halt", "exit"})
            => /\ state.data_stack = <<IntV(0), IntV(42)>>
               /\ state.memory = [a \in {StrV("100")} |-> IntV(42)])

\* the program of test_memory_operations ended on a fresh VM
C23_Witness ==
    /\ program = ProgMemory
    /\ fresh
    /\ mode = "idle"
    /\ last.kind = "halt"
    /\ state.data_stack = <<IntV(0), IntV(42)>>
    /\ state.memory = [a \in {StrV("100")} |-> IntV(42)]

\* C24: ROT on a stack ending c, b, a (a on top) leaves it ending a, c, b and
\* the values below as they are; with fewer than three values it raises and
\* leaves the stack alone; three ROTs in a row restore the stack.
C24_Rot ==
    /\ [][(Reached /\ last'.opcode = "ROT" /\ Fetch(state, program).operands = <<>>)
            => LET n == Len(state.data_stack)
               IN IF n < 3
                  THEN /\ last'.kind = "instruction_error"
                       /\ raised' = "Not enough values on stack to rotate"
                       /\ state'.data_stack = state.data_stack
                  ELSE /\ last'.kind = "dispatch"
                       /\ Len(state'.data_stack) = n
                       /\ SubSeq(state'.data_stack, 1, n - 3) = SubSeq(state.data_stack, 1, n - 3)
                       /\ state'.data_stack[n - 2] = state.data_stack[n]
                       /\ state'.data_stack[n - 1] = state.data_stack[n - 2]
                       /\ state'.data_stack[n] = state.data_stack[n - 1]]_vars
    /\ []((program = ProgRotThrice /\ mode = "loop" /\ fetches = 0
                /\ Len(state.data_stack) >= 3)
            => LET ended == RunLoop(state, program, config)
               IN /\ ended.err = None
                  /\ ended.state.program_counter = 3
                  /\ ended.state.data_stack = state.data_stack)

\* the third ROT of three returned, on a stack of three different values
C24_Witness ==
    /\ program = ProgRotThrice
    /\ last.kind = "dispatch"
    /\ last.pc = 2
    /\ state.data_stack = <<IntV(-7), IntV(0), IntV(2)>>

\* C25: PUSH v; POP leaves the data stack exactly as it was, and push_data(v)
\* followed by pop_data() gives v back and restores data_stack and
\* memory_usage: a PUSH appends its argument and a POP removes the top; a
\* push_data that returns has appended v and counted its cost, and the
\* pop_data after it returns, removes that v and takes its cost off again.
C25_PushPopRestores ==
    /\ [][/\ ReachedWithArgument("PUSH")
               => /\ last'.kind = "dispatch"
                  /\ state'.data_stack = Append(state.data_stack, last'.args[1])
          /\ ReachedWith({"POP"}, 1)
               => /\ last'.kind = "dispatch"
                  /\ state'.data_stack = Front(state.data_stack)
          /\ (mode = "idle" /\ last'.kind = "push_data" /\ runs' = runs + 1 /\ raised' = None)
               => /\ state'.data_stack = Append(state.data_stack, last'.args[1])
                  /\ state'.memory_usage = state.memory_usage + ValueCost(last'.args[1])
          /\ (mode = "idle" /\ last.kind = "push_data" /\ raised = None
                   /\ last'.kind = "pop_data" /\ runs' = runs + 1)
               => /\ raised' = None
                  /\ Top(state.data_stack) = last.args[1]
                  /\ state'.data_stack = Front(state.data_stack)
                  /\ state'.memory_usage = state.memory_usage - ValueCost(last.args[1])
                  /\ state' = [state EXCEPT !.data_stack = state'.data_stack,
                                            !.memory_usage = state'.memory_usage]]_vars
    /\ []((program \in ProgsPushPop /\ mode = "loop" /\ fetches = 0)
            => LET ended == RunLoop(state, program, config)
               IN /\ ended.err = None
                  /\ ended.state.data_stack = state.data_stack)

\* PUSH #2; POP has run on a VM prepared with the stack -7, 0
C25_Witness ==
    /\ program \in ProgsPushPop
    /\ last.kind = "dispatch"
    /\ last.opcode = "POP"
    /\ state.program_counter = 2
    /\ state.data_stack = <<IntV(-7), IntV(0)>>

\* push_data and then pop_data were called on a VM prepared with nothing
C25_WitnessMethods ==
    /\ last.kind = "pop_data"
    /\ raised = None
    /\ runs = 2
    /\ state = VMState

\* the number of values an opcode needs on the data stack
Needs(name) ==
    CASE name \in {"POP", "DROP", "DUP", "NOT", "STORE", "JZ", "JNZ"} -> 1
      [] name \in {"SWAP", "OVER"} \cup BinaryOpcodes -> 2
      [] name = "ROT" -> 3
      [] OTHER -> 0

\* the messages of the errors the opcodes raise for a stack that is too short
StackErrors ==
    {"Data stack underflow", "Data stack empty", "Not enough values on stack to swap",
     "Not enough values on stack to rotate", "Not enough values on stack for over",
     "Not enough values on stack for addition", "Not enough values on stack for subtraction",
     "Not enough values on stack for multiplication", "Not enough values on stack for division",
     "Not enough values on stack for AND", "Not enough values on stack for OR",
     "Not enough values on stack for XOR", "Data stack empty for NOT",
     "Data stack empty for JZ", "Data stack empty for JNZ", "Data stack empty for STORE",
     "Control stack underflow on RET"}

\* C26: an opcode reached with fewer values on the data stack than it needs
\* (POP, DROP, DUP, NOT, STORE, JZ, JNZ: 1; SWAP, OVER and the binary opcodes:
\* 2; ROT: 3) raises a stack error and takes nothing off either stack; POP on
\* an empty stack raises 'Data stack underflow', and RET on an empty control
\* stack raises a control-stack underflow error.
C26_Underflow ==
    [][(/\ Reached
        /\ last'.opcode # None
        /\ Len(last'.args) = Len(Fetch(state, program).operands)
        /\ validate_args(last'.opcode, last'.args))
        => /\ Len(state.data_stack) < Needs(last'.opcode)
                => /\ last'.kind = "instruction_error"
                   /\ raised' \in StackErrors
                   /\ state'.data_stack = state.data_stack
                   /\ state'.control_stack = state.control_stack
                   /\ state'.memory = state.memory
           /\ (last'.opcode = "POP" /\ state.data_stack = <<>>)
                => raised' = "Data stack underflow"
           /\ (last'.opcode = "RET" /\ state.control_stack = <<>>)
                => /\ last'.kind = "instruction_error"
                   /\ raised' = "Control stack underflow on RET"
                   /\ state'.data_stack = state.data_stack]_vars

\* ROT was reached with two values on the stack
C26_Witness ==
    /\ mode = "idle"
    /\ last.kind = "instruction_error"
    /\ last.opcode = "ROT"
    /\ raised = "Not enough values on stack to rotate"
    /\ Len(state.data_stack) = 2

\* C27: FORK, JOIN, FOPEN, FREAD, FWRITE and FCLOSE, reached with operands
\* they accept, are dispatched and change nothing: data_stack, control_stack,
\* memory and registers are as before and the program counter is one more;
\* FORK t does not go to t.
C27_NoOps ==
    [][(/\ Reached
        /\ last'.opcode \in {"FORK", "JOIN", "FOPEN", "FREAD", "FWRITE", "FCLOSE"}
        /\ Len(last'.args) = Len(Fetch(state, program).operands)
        /\ validate_args(last'.opcode, last'.args))
        => /\ last'.kind = "dispatch"
           /\ state'.data_stack = state.data_stack
           /\ state'.control_stack = state.control_stack
           /\ state'.memory = state.memory
           /\ state'.registers = state.registers
           /\ state'.program_counter = state.program_counter + 1]_vars

\* the step being taken ran execute_instruction, inside execute or called on
\* its own, and resolved every operand of instruction i
Resolved(i) ==
    /\ \/ Reached /\ i = Fetch(state, program)
       \/ InstructionPrepared(i)
    /\ last'.opcode = get_opcode(i.opcode)
    /\ last'.opcode # None
    /\ Len(last'.args) = Len(i.operands)

\* C28: no call of execute or execute_instruction changes the registers; a
\* Register operand rN resolves to the value of register "rN", or to 0 when
\* that register is unset, and resolving it creates no entry.
C28_RegistersReadOnly ==
    [][/\ state'.registers = state.registers
       /\ \A i \in RegInstructions :
            (Resolved(i) /\ Len(i.operands) = 1 /\ i.operands[1].k = "Register")
                => LET name == "r" \o ToString(i.operands[1].number)
                   IN last'.args[1] = IF name \in DOMAIN state.registers
                                      THEN state.registers[name] ELSE IntV(0)]_vars

\* PUSH r1 was dispatched on a VM whose register r1 holds 5
C28_Witness ==
    /\ last.kind = "dispatch"
    /\ last.opcode = "PUSH"
    /\ last.args = <<IntV(5)>>
    /\ state.data_stack # <<>>
    /\ Top(state.data_stack) = IntV(5)
    /\ state.registers = [r \in {"r1"} |-> IntV(5)]

\* execute_instruction, called on its own, resolved r2 on a VM where it is unset
C28_WitnessUnset ==
    /\ last.kind = "execute_instruction"
    /\ last.opcode = "PUSH"
    /\ last.args = <<IntV(0)>>
    /\ "r2" \notin DOMAIN state.registers

\* C29: from every state reset() yields the initial state: data_stack,
\* control_stack, memory and registers empty, program_counter 0, running
\* false, error_state none, execution_steps 0, memory_usage 0 and no program
\* loaded; the config is as before, and a reset made right after a reset
\* changes nothing.
C29_Reset ==
    /\ [][last'.kind = "reset"
            => /\ state'.data_stack = <<>>
               /\ state'.control_stack = <<>>
               /\ DOMAIN state'.memory = {}
               /\ DOMAIN state'.registers = {}
               /\ state'.program_counter = 0
               /\ state'.running = FALSE
               /\ state'.error_state = None
               /\ state'.execution_steps = 0
               /\ state'.memory_usage = 0
               /\ program' = NoProgram
               /\ config' = config]_vars
    /\ [](last.kind = "reset" => (state = reset /\ program = NoProgram))

\* reset() was called after calls that ran instructions
C29_Witness ==
    /\ last.kind = "reset"
    /\ fetches > 0
    /\ runs > 1
    /\ state = VMState
    /\ program = NoProgram

----------------------------------------------------------------------------
(* Properties of the arithmetic on 64-bit ints *)

\* -2^63 <= v <= 2^63 - 1
InI64(v) ==
    /\ IsInt(v)
    /\ IsWide(v) => \/ MagLess(v.mag, <<0, 0, 0, 0, 8>>)
                    \/ v.neg /\ v.mag = <<0, 0, 0, 0, 8>>

\* the int in [-2^63, 2^63 - 1] that differs from v by a multiple of 2^64
Wrap64(v) ==
    LET two64 == WideV(FALSE, <<0, 0, 0, 0, 16>>)
        low == Unsigned(FALSE, <<Digit(Signed(v).mag, 1), Digit(Signed(v).mag, 2),
                                 Digit(Signed(v).mag, 3), Digit(Signed(v).mag, 4),
                                 Digit(Signed(v).mag, 5) % 16>>)
        residue == IF Signed(v).neg /\ ~IsZero(low) THEN IntSub(two64, low) ELSE low
    IN IF InI64(residue) THEN residue ELSE IntSub(residue, two64)

\* C22: arithmetic is on signed 64-bit integers with two's-complement
\* wraparound: for operands in [-2^63, 2^63 - 1] the value ADD, SUB, MUL and
\* NOT push lies in that range and is the mathematical result reduced modulo
\* 2^64.
C22_I64Wraparound ==
    [][/\ ReachedWith({"ADD", "SUB", "MUL"}, 2)
            => LET a == Second(state.data_stack)
                   b == Top(state.data_stack)
               IN (InI64(a) /\ InI64(b))
                    => /\ last'.kind = "dispatch"
                       /\ InI64(Top(state'.data_stack))
                       /\ Top(state'.data_stack) = Wrap64(BinaryResult(last'.opcode, a, b))
       /\ ReachedWith({"NOT"}, 1)
            => LET a == Top(state.data_stack)
               IN InI64(a)
                    => /\ last'.kind = "dispatch"
                       /\ InI64(Top(state'.data_stack))
                       /\ Top(state'.data_stack) = Wrap64(PyInvert(a))]_vars

----------------------------------------------------------------------------
(* Properties of SovereignInterpreter.run *)

\* the step being taken is run raising the parser's ParseError again: same
\* message, nothing loaded and nothing executed
ParseErrorLifted ==
    last'.kind = "run_parse_error"
        => /\ last'.raises = "ParseError"
           /\ \E source \in Sources : raised' = SovereignParser_parse(source).err
           /\ state' = state
           /\ program' = program

\* C30 as stated: run lifts errors unchanged.  A ParseError reaches the
\* caller as it is with no instruction executed, and an error raised by
\* vm.execute reaches the caller with the message the VM raised (and recorded
\* in error_state), not wrapped or prefixed.
C30_RunLiftsUnchanged ==
    [][/\ ParseErrorLifted
       /\ last'.kind = "run_except"
            => /\ raised' = raised
               /\ state.error_state # None => raised' = state.error_state]_vars

\* C30, amended: a ParseError reaches the caller as it is with no instruction
\* executed; an error raised by vm.execute reaches the caller as a
\* RuntimeError whose message is 'Execution failed: ' followed by the message
\* the VM raised (the one in error_state when the VM recorded it), and the VM
\* state is as execute left it.
C30_RunWrapsErrors ==
    [][/\ ParseErrorLifted
       /\ last'.kind = "run_except"
            => /\ last'.raises = "RuntimeError"
               /\ raised' = "Execution failed: " \o raised
               /\ state.error_state # None
                    => raised' = "Execution failed: " \o state.error_state
               /\ state' = state]_vars

\* run raised for a division by zero inside vm.execute
C30_Witness ==
    /\ last.kind = "run_except"
    /\ state.error_state = "Division by zero"
    /\ raised = "Execution failed: Division by zero"

\* run raised the ParseError of a source that does not parse
C30_WitnessParseError ==
    /\ last.kind = "run_parse_error"
    /\ raised = "Failed to parse source: No terminal matches '$'"
    /\ state.execution_steps = 0

----------------------------------------------------------------------------
(* Properties of the hook opcodes *)

\* C31: whatever the hook behind LLMGEN or EVOLVE does, the opcode pushes
\* exactly one string on the data stack (the sentinel 'LLMGEN_ERROR: ...' or
\* 'EVOLVE_FAILED: ...' when the hook fails, the generated text when LLMGEN's
\* hook succeeds), error_state stays none and execute goes on to the next
\* instruction.
C31_HookOpcodesPushOneString ==
    [][(/\ Reached
        /\ last'.opcode \in {"LLMGEN", "EVOLVE"}
        /\ Len(last'.args) = 1
        /\ IsStr(last'.args[1]))
        => /\ last'.kind = "dispatch"
           /\ Len(state'.data_stack) = Len(state.data_stack) + 1
           /\ Front(state'.data_stack) = state.data_stack
           /\ IsStr(Top(state'.data_stack))
           /\ state'.error_state = None
           /\ state'.program_counter = state.program_counter + 1]_vars

----------------------------------------------------------------------------
(* Properties of the parser's Program *)

\* the positions of the source that define the label `name`
Definitions(source, name) ==
    {j \in 1..Len(source) : "opcode" \notin DOMAIN source[j] /\ source[j].name = name}

\* the number of instructions among the first j - 1 statements of the source
InstructionsBefore(source, j) ==
    Cardinality({x \in 1..(j - 1) : "opcode" \in DOMAIN source[x]})

\* the label names the source defines
LabelNames(source) ==
    {source[j].name : j \in {x \in 1..Len(source) : "opcode" \notin DOMAIN source[x]}}

\* C32: label names are unique: a source that defines a label name twice
\* fails with ParseError and yields no Program, so a later definition never
\* replaces the index of an earlier one.
C32_DuplicateLabelRejected ==
    [][\A source \in StatementSequences :
          (/\ RunFirst(source)
           /\ \E name \in LabelNames(source) : Cardinality(Definitions(source, name)) > 1)
          => /\ last'.kind = "run_parse_error"
             /\ program' = NoProgram]_vars

\* C33: the Program built from a statement sequence holds the instructions in
\* order and binds each label to the number of instructions before its
\* definition (label definitions take no index), so every label index is in
\* 0..len(instructions), and a label defined after the last instruction is
\* bound to len(instructions).
C33_LabelIndex ==
    [][\A source \in StatementSequences :
          (RunFirst(source) /\ last'.kind # "run_parse_error")
          => /\ Len(program'.instructions) = InstructionsBefore(source, Len(source) + 1)
             /\ DOMAIN program'.labels = LabelNames(source)
             /\ \A name \in LabelNames(source) :
                  /\ program'.labels[name] \in 0..Len(program'.instructions)
                  /\ \E j \in Definitions(source, name) :
                        program'.labels[name] = InstructionsBefore(source, j)
                  /\ Cardinality(Definitions(source, name)) = 1
                        => \A j \in Definitions(source, name) :
                              /\ program'.labels[name] = InstructionsBefore(source, j)
                              /\ (\A x \in j..Len(source) : "opcode" \notin DOMAIN source[x])
                                    => program'.labels[name] = Len(program'.instructions)]_vars

\* run has parsed a: PUSH #1 b: and called vm.execute: a is bound to 0, and b,
\* defined after the last instruction, to 1
C33_Witness ==
    /\ program # NoProgram
    /\ Len(program.instructions) = 1
    /\ DOMAIN program.labels = {"a", "b"}
    /\ program.labels["a"] = 0
    /\ program.labels["b"] = 1
    /\ last.kind = "execute"

----------------------------------------------------------------------------
(* Properties of the VM's stack and memory methods *)

\* the step being taken is a call of the VM method `kind`
Called(kind) == mode = "idle" /\ last'.kind = kind /\ runs' = runs + 1

StackSizeMessage(operation) ==
    operation \o " would exceed maximum stack size of " \o ToString(config.max_stack_size)

DepthMessage == "Call depth would exceed maximum of " \o ToString(config.max_call_depth)

MemoryMessage ==
    "Memory usage exceeded maximum of " \o ToString(config.max_memory_size) \o " bytes"

\* which of its two checks refuses a push_control, by the lengths alone
ControlRefusal ==
    /\ Len(state.control_stack) >= config.max_stack_size
            => raised' = StackSizeMessage("Control stack push")
    /\ (/\ Len(state.control_stack) < config.max_stack_size
        /\ Len(state.control_stack) >= config.max_call_depth)
            => raised' = DepthMessage

\* C34 as stated: push_data succeeds iff the data stack holds fewer than
\* max_stack_size values and otherwise raises 'Data stack push would exceed
\* maximum ...'; push_control succeeds iff the control stack holds fewer than
\* max_stack_size and fewer than max_call_depth values, the stack-size error
\* being raised when both limits are reached and 'Call depth would exceed
\* maximum' when only the depth limit is; a refused push leaves the stack
\* unchanged.
C34_PushLimits ==
    [][/\ Called("push_data")
            => /\ raised' = None <=> Len(state.data_stack) < config.max_stack_size
               /\ raised' # None
                    => /\ raised' = StackSizeMessage("Data stack push")
                       /\ state'.data_stack = state.data_stack
       /\ Called("push_control")
            => /\ raised' = None
                    <=> /\ Len(state.control_stack) < config.max_stack_size
                        /\ Len(state.control_stack) < config.max_call_depth
               /\ ControlRefusal
               /\ raised' # None => state'.control_stack = state.control_stack]_vars

\* C34, amended: push_data raises 'Data stack push would exceed maximum ...'
\* iff the data stack holds max_stack_size values or more, and push_control
\* raises the stack-size error iff the control stack does, else 'Call depth
\* would exceed maximum' iff it holds max_call_depth values or more; a push
\* refused by one of these checks leaves the VM state unchanged; a push that
\* passes them raises 'Memory usage exceeded maximum' iff memory_usage plus
\* the cost of the value exceeds max_memory_size, and otherwise succeeds and
\* appends the value.
C34_PushChecks ==
    [][/\ Called("push_data")
            => IF Len(state.data_stack) >= config.max_stack_size
               THEN raised' = StackSizeMessage("Data stack push") /\ state' = state
               ELSE /\ raised' = None
                         => state'.data_stack = Append(state.data_stack, last'.args[1])
                    /\ raised' \in {None, MemoryMessage}
                    /\ raised' = MemoryMessage
                         <=> state.memory_usage + ValueCost(last'.args[1])
                                > config.max_memory_size
       /\ Called("push_control")
            => /\ ControlRefusal
               /\ IF \/ Len(state.control_stack) >= config.max_stack_size
                     \/ Len(state.control_stack) >= config.max_call_depth
                  THEN state' = state
                  ELSE /\ raised' = None
                            => state'.control_stack
                                    = Append(state.control_stack, last'.args[1])
                       /\ raised' \in {None, MemoryMessage}
                       /\ raised' = MemoryMessage
                            <=> state.memory_usage + 8 > config.max_memory_size]_vars

\* push_control was refused for the stack size on a control stack that had
\* reached both the stack-size and the call-depth limit
C34_Witness ==
    /\ last.kind = "push_control"
    /\ raised = StackSizeMessage("Control stack push")
    /\ Len(state.control_stack) >= config.max_stack_size
    /\ Len(state.control_stack) >= config.max_call_depth

\* push_data passed the stack check and raised for the memory limit
C34_WitnessMemory ==
    /\ last.kind = "push_data"
    /\ raised = MemoryMessage
    /\ Len(state.data_stack) <= config.max_stack_size

\* 64 per string and 8 per other value of data_stack, control_stack and memory
ContentsCost(st) == SumCost(st.data_stack) + 8 * Len(st.control_stack) + DictCost(st.memory)

Accounted == state.memory_usage = ContentsCost(state)

Succeeded(kind) == Called(kind) /\ raised' = None

\* C35: on a fresh VM memory_usage is the cost of the contents (64 per string,
\* 8 per other value of data_stack, control_stack and memory), and every
\* successful push_data, pop_data, push_control, pop_control or set_memory
\* keeps it so; a successful set_memory changes memory_usage by new_size -
\* old_size (old_size 0 for a new address), and a successful pop subtracts
\* what the push of the popped value added.
C35_MemoryAccounting ==
    [][/\ state = VMState => Accounted
       /\ (/\ Accounted
           /\ \E kind \in {"push_data", "pop_data", "push_control", "pop_control",
                            "set_memory"} : Succeeded(kind))
            => Accounted'
       /\ Succeeded("set_memory")
            => state'.memory_usage - state.memory_usage
                    = ValueCost(last'.args[2])
                        - (IF last'.args[1] \in DOMAIN state.memory
                           THEN ValueCost(state.memory[last'.args[1]]) ELSE 0)
       /\ Succeeded("pop_data")
            => state'.memory_usage = state.memory_usage - ValueCost(Top(state.data_stack))
       /\ Succeeded("push_data")
            => state'.memory_usage = state.memory_usage + ValueCost(last'.args[1])
       /\ Succeeded("push_control") => state'.memory_usage = state.memory_usage + 8
       /\ Succeeded("pop_control") => state'.memory_usage = state.memory_usage - 8]_vars

\* after successful calls only, an int stored at an address was overwritten by
\* a string: the contents cost 128 and memory_usage is 128
C35_Witness ==
    /\ last.kind = "set_memory"
    /\ raised = None
    /\ runs = 3
    /\ state.data_stack = <<StrV("s")>>
    /\ state.memory = DictSet(EmptyDict, StrV("100"), StrV("s"))
    /\ state.memory_usage = 128
    /\ Accounted

\* a string was pushed and popped again, and memory_usage is back at 0
C35_WitnessPop ==
    /\ last.kind = "pop_data"
    /\ raised = None
    /\ runs = 2
    /\ state.data_stack = <<>>
    /\ state.memory_usage = 0
    /\ config.max_memory_size = 144

----------------------------------------------------------------------------
(* Properties of execute_instruction called on its own *)

\* the limits of the state: both stacks within max_stack_size, memory_usage
\* within max_memory_size, program_counter not negative
StateInvariants(st, cfg) ==
    /\ Len(st.data_stack) <= cfg.max_stack_size
    /\ Len(st.control_stack) <= cfg.max_stack_size
    /\ st.memory_usage <= cfg.max_memory_size
    /\ st.program_counter >= 0

\* C36: when execute_instruction, called on a state within its limits, returns
\* normally, the state is within its limits: len(data_stack) <= max_stack_size,
\* len(control_stack) <= max_stack_size, memory_usage <= max_memory_size and
\* program_counter >= 0.
C36_SingleInstructionKeepsLimits ==
    [][(/\ mode = "idle"
        /\ last'.kind = "execute_instruction"
        /\ raised' = None
        /\ StateInvariants(state, config))
            => StateInvariants(state', config)]_vars

----------------------------------------------------------------------------
(* Properties of HALT at the loop head *)

\* the loop head of the execute call in progress passes the step limit and
\* fetches an instruction whose opcode is "HALT"
FindsHalt ==
    /\ mode = "loop"
    /\ LoopCondition(state, program)
    /\ _check_execution_limit(state, config).err = None
    /\ ~FetchRaises(state, program)
    /\ Fetch(state, program).opcode = "HALT"

\* C37: when the loop head of execute finds HALT at index k, the call ends with
\* that step, without dispatching HALT (no execute_instruction, so neither
\* validate_args nor HaltOp.execute) and without advancing the program
\* counter: running == false, program_counter == k, error_state none, no error
\* raised, and data_stack, control_stack and memory as they were at the fetch.
C37_HaltAtLoopHead ==
    [][FindsHalt
            => /\ mode' = "idle"
               /\ last'.kind = "halt"
               /\ raised' = None
               /\ state'.running = FALSE
               /\ state'.program_counter = state.program_counter
               /\ state'.error_state = None
               /\ state'.data_stack = state.data_stack
               /\ state'.control_stack = state.control_stack
               /\ state'.memory = state.memory
               /\ state'.registers = state.registers]_vars

\* a run ended at a HALT found at index 2, with the value pushed before it
C37_Witness ==
    /\ last.kind = "halt"
    /\ mode = "idle"
    /\ state.program_counter = 2
    /\ state.running = FALSE
    /\ state.error_state = None
    /\ state.data_stack # <<>>

----------------------------------------------------------------------------
(* Properties of a run on a VM that was used before *)

\* C38: up to its first fetch a call of execute(p) changes only the loaded
\* program, program_counter (to 0), running and error_state (to none);
\* data_stack, control_stack, memory, registers, execution_steps and
\* memory_usage are kept as the earlier calls left them; and a run that ends
\* without an error, also one that follows a failed run, ends with error_state
\* none.
C38_ExecuteKeepsState ==
    /\ [][ExecuteCalled
            => /\ \E running \in BOOLEAN :
                    state' = [state EXCEPT !.program_counter = 0, !.running = running,
                                           !.error_state = None]
               /\ state'.running <=> raised' = None
               /\ program' # NoProgram]_vars
    /\ [](mode = "idle" /\ last.kind \in {"halt", "exit"} => state.error_state = None)

\* a second call of execute, before its first fetch, on the stack and the step
\* count the first run left
C38_Witness ==
    /\ last.kind = "execute"
    /\ mode = "loop"
    /\ ~fresh
    /\ runs = 2
    /\ state.data_stack # <<>>
    /\ state.execution_steps > 0
    /\ state.program_counter = 0
    /\ state.error_state = None

\* a run ended at HALT without an error on a VM whose step count shows an
\* earlier run
C38_WitnessSecondRun ==
    /\ last.kind = "halt"
    /\ ~fresh
    /\ state.execution_steps > fetches
    /\ state.error_state = None

----------------------------------------------------------------------------
(* Properties of the entries of the control stack *)

\* a call of execute made on a VM in its constructed state is in progress or
\* was the last call made
InFreshRun ==
    /\ fresh
    /\ last.kind \in {"execute", "dispatch", "halt", "exit", "instruction_error",
                      "limit_error", "fetch_error"}

\* the return addresses of the CALL instructions of a program: i + 1 for
\* every index i (from 0) of a CALL
ReturnAddresses(prog) ==
    {j \in 1..Len(prog.instructions) : upper(prog.instructions[j].opcode) = "CALL"}

\* C39: in every state of a call of execute made on a fresh VM, every entry of
\* control_stack is i + 1 for the index i of a CALL instruction of the loaded
\* program, hence an integer in [1, len(instructions)]; a step of execute
\* that lengthens the control stack is a CALL appending one entry, and one
\* that shortens it is a RET removing the top.
C39_ControlEntriesAreReturnAddresses ==
    /\ [](InFreshRun
            => \A j \in DOMAIN state.control_stack :
                    /\ state.control_stack[j] \in ReturnAddresses(program)
                    /\ state.control_stack[j] \in 1..Len(program.instructions))
    /\ [][(mode = "loop" /\ state'.control_stack # state.control_stack)
            => \/ /\ last'.opcode = "CALL"
                  /\ Front(state'.control_stack) = state.control_stack
               \/ /\ last'.opcode = "RET"
                  /\ state.control_stack # <<>>
                  /\ state'.control_stack = Front(state.control_stack)]_vars

----------------------------------------------------------------------------
(* Properties of a refused call *)

\* C40: a call of push_data, pop_data, push_control, pop_control or set_memory
\* that raises leaves data_stack, control_stack, memory and memory_usage as
\* they were before the call.
C40_RefusedCallChangesNothing ==
    [][(/\ \E kind \in {"push_data", "pop_data", "push_control", "pop_control",
                         "set_memory"} : Called(kind)
        /\ raised' # None)
            => /\ state'.data_stack = state.data_stack
               /\ state'.control_stack = state.control_stack
               /\ state'.memory = state.memory
               /\ state'.memory_usage = state.memory_usage]_vars

====
